---- MODULE Spec2Model ----
(***************************************************************************)
(* NISA-aware future-value projection of stock_app.                        *)
(*                                                                         *)
(* The allocation of one year's planned NISA contributions to the two     *)
(* tax-advantaged buckets (tsumitate = TypeA, growth = TypeB) is the      *)
(* useMemo `nisaAnnualEligible` of PlansPage                               *)
(* (src/frontend/src/pages/_document.tsx).  The year loop that drives it  *)
(* lives in backend/src/portfolio/services.py, which is not part of the   *)
(* sources at hand; it is modelled from the specification (sections 4.2   *)
(* and 3) and from docs/nisa_projection_api.md.                           *)
(*                                                                         *)
(* The forms that feed it, ProjectionForm (src/unnamed/part_001) and       *)
(* PlansForm (src/frontend/src/components/PlansForm.tsx), are modelled    *)
(* from their handlers.                                                    *)
(*                                                                         *)
(* Money is counted in units of 10,000 yen (万円), the unit the API        *)
(* document uses for the limits (120万円 = 1,200,000 yen).                 *)
(* Balances are exact rationals: a balance field of a run holds the       *)
(* numerator over Scale(rate, years) = GrowthDen(rate)^years.             *)
(***************************************************************************)
EXTENDS Integers, Sequences, FiniteSets, TLC

VARIABLES
    store,      \* external stores: starting total, plan list, past NISA usage
    request,    \* the projection request: projection_years, annual_return_rate
    pc,         \* per run: "idle", "running", "done" or "rejected"
    snap,       \* per run: the inputs read when the run started
    ledger,     \* per run: lifetime usage of tsumitate and growth
    year,       \* per run: number of years projected so far
    balance,    \* per run: starting balance of the next year
    records,    \* per run: the year records emitted so far
    calls,      \* per run: the allocate calls made so far
    result,     \* per run: the ProjectionResult or the error
    edits,      \* number of changes made to the plan store
    formData,   \* PlansForm: the fields of the form
    errors,     \* per form: the fields that failed validation
    submitted,  \* per form: what the form passed to onSubmit, if anything
    submitError,\* PlansForm: the message of a failed onSubmit, or "null"
    server,     \* the backend: the session and the holdings it stores
    api,        \* the API client: the last call, its response and its outcome
    holdingsForm, \* HoldingsForm: props, state, the call in flight, last callback
    auth,       \* AuthProvider: user, isLoading, localStorage, requests in flight
    route,      \* the router: the page shown, its path and the pending pushes
    plansPage,  \* PlansPage: PageState and the last reload it issued
    planRows    \* the number of recurring plans the backend stores

vars == <<store, request, pc, snap, ledger, year, balance, records, calls, result, edits,
          formData, errors, submitted, submitError, server, api,
          holdingsForm, auth, route, plansPage, planRows>>

\* the state of the forms, which the projection engine does not touch
formVars == <<formData, errors, submitted, submitError>>

\* the state of the projection engine and of its stores
engineVars == <<store, request, pc, snap, ledger, year, balance, records, calls, result,
                edits>>

\* the state of the API client and of the pages, which neither the engine nor
\* the plan and projection forms touch
pageVars == <<plansPage, planRows>>

uiVars == <<server, api, holdingsForm, auth, route, pageVars>>

----------------------------------------------------------------------------
(* Bounds of the model *)

MaxYears == 3

MaxPlans == 2

MaxEdits == 1

Runs == {1, 2}

----------------------------------------------------------------------------
(* Arithmetic helpers *)

Min2(a, b) == IF a <= b THEN a ELSE b

Min3(a, b, c) == Min2(a, Min2(b, c))

\* greatest common divisor of a >= 0 and b > 0
GCD(a, b) ==
    CHOOSE d \in 1..b :
      /\ a % d = 0 /\ b % d = 0
      /\ \A e \in 1..b : (a % e = 0 /\ b % e = 0) => e <= d

Pow(b, n) ==
    LET p[k \in 0..n] == IF k = 0 THEN 1 ELSE b * p[k - 1]
    IN p[n]

\* sum of seq[1..n]
SumSeq(seq, n) ==
    LET t[k \in 0..n] == IF k = 0 THEN 0 ELSE t[k - 1] + seq[k]
    IN t[n]

----------------------------------------------------------------------------
(* Program constants (in 万円) *)

\* const ANNUAL_CAP = { tsumitate: 1200000, growth: 2400000, total: 3600000 }
ANNUAL_CAP == [tsumitate |-> 120, growth |-> 240, total |-> 360]

\* 生涯上限: NISA全体 1,800万円, うち成長投資枠 1,200万円; つみたて has none
LIFETIME_LIMIT == [growth |-> 1200, total |-> 1800]

----------------------------------------------------------------------------
(* Recurring plans.  bonus_months is the comma-separated string, held as   *)
(* the sequence of its tokens after trim(): a month number, or 0 for a     *)
(* blank token.  start_year / end_year give the active range in projection *)
(* years (end_year = 0: no end date).                                      *)

Plan(acct, cls, region, freq, amount, bonus, cont, from, to) ==
    [target_account_type |-> acct, target_asset_class |-> cls,
     target_asset_region |-> region, frequency |-> freq, amount_jpy |-> amount,
     bonus_months |-> bonus, continue_if_limit_exceeded |-> cont,
     start_year |-> from, end_year |-> to]

PlanCatalogue ==
    [i \in 1..6 |->
       CASE i = 1 -> Plan("NISA_TSUMITATE", "MUTUAL_FUND", "INTERNATIONAL_STOCKS",
                          "MONTHLY", 10, <<>>, FALSE, 1, 0)
         [] i = 2 -> Plan("NISA_TSUMITATE", "MUTUAL_FUND", "DOMESTIC_STOCKS",
                          "DAILY", 1, <<>>, TRUE, 1, 0)
         [] i = 3 -> Plan("NISA_GROWTH", "INDIVIDUAL_STOCK", "DOMESTIC_STOCKS",
                          "MONTHLY", 30, <<>>, TRUE, 1, 0)
         [] i = 4 -> Plan("NISA_GROWTH", "INDIVIDUAL_STOCK", "INTERNATIONAL_STOCKS",
                          "BONUS_MONTH", 20, <<6, 0, 12>>, FALSE, 1, 2)
         [] i = 5 -> Plan("GENERAL", "CRYPTOCURRENCY", "CRYPTOCURRENCY",
                          "DAILY", 1, <<>>, FALSE, 2, 0)
         [] i = 6 -> Plan("NISA_GROWTH", "MUTUAL_FUND", "INTERNATIONAL_STOCKS",
                          "MONTHLY", 20, <<>>, FALSE, 1, 0)]

PlanIds == DOMAIN PlanCatalogue

PlanSets == {S \in SUBSET PlanIds : Cardinality(S) <= MaxPlans}

\* plan.bonus_months.split(",").map(m => m.trim()).filter(Boolean).length
bonusCount(plan) ==
    Cardinality({k \in DOMAIN plan.bonus_months : plan.bonus_months[k] # 0})

isCrypto(plan) ==
    \/ plan.target_asset_region = "CRYPTOCURRENCY"
    \/ plan.target_asset_class = "CRYPTOCURRENCY"

tradingDaysPerYear(plan) == IF isCrypto(plan) THEN 365 ELSE 245

\* mutant: every daily plan is counted on 365 days
annualAmount_everyDay(plan) ==
    CASE plan.frequency = "DAILY" -> plan.amount_jpy * 365
      [] plan.frequency = "MONTHLY" -> plan.amount_jpy * 12
      [] plan.frequency = "BONUS_MONTH" -> plan.amount_jpy * bonusCount(plan)
      [] OTHER -> 0

annualAmount(plan) ==
    CASE plan.frequency = "DAILY" -> plan.amount_jpy * tradingDaysPerYear(plan)
      [] plan.frequency = "MONTHLY" -> plan.amount_jpy * 12
      [] plan.frequency = "BONUS_MONTH" -> plan.amount_jpy * bonusCount(plan)
      [] OTHER -> 0

\* totals.annual of PlansPage: the annual amounts of all plans of the list
totals(plans) ==
    [annual |-> SumSeq([i \in PlanIds |->
                          IF i \in plans THEN annualAmount(PlanCatalogue[i]) ELSE 0],
                       Cardinality(PlanIds))]

\* mutant: a plan goes on contributing after its end
IsActive_noEnd(plan, y) ==
    /\ plan.start_year <= y

\* a plan contributes in projection year y only inside its active range
IsActive(plan, y) ==
    /\ plan.start_year <= y
    /\ (plan.end_year = 0 \/ y <= plan.end_year)

ActivePlans(plans, y) == {i \in plans : IsActive(PlanCatalogue[i], y)}

BucketPlans(plans, y, acct) ==
    {i \in ActivePlans(plans, y) : PlanCatalogue[i].target_account_type = acct}

BucketAmount(plans, y, acct) ==
    LET in == BucketPlans(plans, y, acct)
        amounts == [i \in PlanIds |->
                      IF i \in in THEN annualAmount(PlanCatalogue[i]) ELSE 0]
    IN SumSeq(amounts, Cardinality(PlanIds))

\* annualPlan = { tsumitate, growth } summed over the NISA plans
annualPlan(plans, y) ==
    [tsumitate |-> BucketAmount(plans, y, "NISA_TSUMITATE"),
     growth |-> BucketAmount(plans, y, "NISA_GROWTH")]

----------------------------------------------------------------------------
(* AllocationLedger *)

\* remaining lifetime room reported for a ledger: limit - used
lifetimeRem(led) ==
    [growth |-> LIFETIME_LIMIT.growth - led.growth,
     total |-> LIFETIME_LIMIT.total - (led.tsumitate + led.growth)]

\* mutant: the remaining lifetime room of growth is left out
effectiveCaps_noGrowthLifetime(rem) ==
    [tsumitate |-> Min2(ANNUAL_CAP.tsumitate, rem.total),
     growth |-> Min2(ANNUAL_CAP.growth, rem.total),
     total |-> Min2(ANNUAL_CAP.total, rem.total)]

\* mutant: the annual caps alone, whatever lifetime room is left
effectiveCaps_annualOnly(rem) ==
    [tsumitate |-> ANNUAL_CAP.tsumitate,
     growth |-> ANNUAL_CAP.growth,
     total |-> ANNUAL_CAP.total]

effectiveCaps(rem) ==
    [tsumitate |-> Min2(ANNUAL_CAP.tsumitate, rem.total),
     growth |-> Min3(ANNUAL_CAP.growth, rem.growth, rem.total),
     total |-> Min2(ANNUAL_CAP.total, rem.total)]

\* mutant: the shared budget is not reduced by the tsumitate credit
nisaAnnualEligible_noDecrement(planned, rem) ==
    LET caps == effectiveCaps(rem)
        tsumitateEligible == Min3(planned.tsumitate, caps.tsumitate, caps.total)
        totalCapLeft == caps.total
        growthEligible == Min3(planned.growth, caps.growth, totalCapLeft)
    IN [tsumitate |-> [planned |-> planned.tsumitate, eligible |-> tsumitateEligible],
        growth |-> [planned |-> planned.growth, eligible |-> growthEligible],
        total |-> [planned |-> planned.tsumitate + planned.growth,
                   eligible |-> tsumitateEligible + growthEligible],
        effectiveCaps |-> caps]

\* mutant: growth is served before tsumitate
nisaAnnualEligible_growthFirst(planned, rem) ==
    LET caps == effectiveCaps(rem)
        growthEligible == Min3(planned.growth, caps.growth, caps.total)
        totalCapLeft == caps.total - growthEligible
        tsumitateEligible == Min3(planned.tsumitate, caps.tsumitate, totalCapLeft)
    IN [tsumitate |-> [planned |-> planned.tsumitate, eligible |-> tsumitateEligible],
        growth |-> [planned |-> planned.growth, eligible |-> growthEligible],
        total |-> [planned |-> planned.tsumitate + planned.growth,
                   eligible |-> tsumitateEligible + growthEligible],
        effectiveCaps |-> caps]

\* total cap first, then tsumitate, then growth from what is left
nisaAnnualEligible(planned, rem) ==
    LET caps == effectiveCaps(rem)
        tsumitateEligible == Min3(planned.tsumitate, caps.tsumitate, caps.total)
        totalCapLeft == caps.total - tsumitateEligible
        growthEligible == Min3(planned.growth, caps.growth, totalCapLeft)
    IN [tsumitate |-> [planned |-> planned.tsumitate, eligible |-> tsumitateEligible],
        growth |-> [planned |-> planned.growth, eligible |-> growthEligible],
        total |-> [planned |-> planned.tsumitate + planned.growth,
                   eligible |-> tsumitateEligible + growthEligible],
        effectiveCaps |-> caps]

\* what allocate returns for the eligible amounts e: the credits and the
\* amount not credited
allocated(planned, e) ==
    [typeA |-> e.tsumitate.eligible,
     typeB |-> e.growth.eligible,
     overflow |-> (planned.tsumitate - e.tsumitate.eligible)
                  + (planned.growth - e.growth.eligible),
     effectiveCaps |-> e.effectiveCaps]

\* allocate(yearProposed) -> {typeA, typeB, overflow}, on ledger state led
allocate(led, planned) ==
    allocated(planned, nisaAnnualEligible(planned, lifetimeRem(led)))

\* side effect of allocate: lifetime usage grows by the credited amounts
credit(led, a) ==
    [tsumitate |-> led.tsumitate + a.typeA, growth |-> led.growth + a.typeB]

----------------------------------------------------------------------------
(* ProjectionEngine: one year of the loop *)

\* (1 + rate/100) in lowest terms
GrowthNum(rate) == (100 + rate) \div GCD(100 + rate, 100)

GrowthDen(rate) == 100 \div GCD(100 + rate, 100)

\* balances of a run are numerators over Scale(rate, years)
Scale(rate, years) == Pow(GrowthDen(rate), years)

\* OR of continue_if_limit_exceeded over the plans contributing to a bucket
continuePastCap(plans, y, acct) ==
    \E i \in BucketPlans(plans, y, acct) : PlanCatalogue[i].continue_if_limit_exceeded

\* per-bucket amount that could not be credited
bucketOverflow(planned, a) ==
    [tsumitate |-> planned.tsumitate - a.typeA, growth |-> planned.growth - a.typeB]

\* overflow of a bucket is added to the balance when a contributing plan
\* continues past the cap
overflowToBalance(plans, y, planned, a) ==
    LET ov == bucketOverflow(planned, a)
    IN (IF continuePastCap(plans, y, "NISA_TSUMITATE") THEN ov.tsumitate ELSE 0)
       + (IF continuePastCap(plans, y, "NISA_GROWTH") THEN ov.growth ELSE 0)

\* the bucket whose overflow no contributing plan accepts, "none" otherwise
capViolation(plans, y, planned, a) ==
    LET ov == bucketOverflow(planned, a)
    IN IF /\ ov.tsumitate > 0
          /\ BucketPlans(plans, y, "NISA_TSUMITATE") # {}
          /\ ~continuePastCap(plans, y, "NISA_TSUMITATE")
       THEN "tsumitate"
       ELSE IF /\ ov.growth > 0
               /\ BucketPlans(plans, y, "NISA_GROWTH") # {}
               /\ ~continuePastCap(plans, y, "NISA_GROWTH")
            THEN "growth"
            ELSE "none"

\* mutant: the unrestricted amount is limited to the annual total cap
settle_unrestrictedCapped(plans, led, y, planned, a) ==
    LET unrestricted == BucketAmount(plans, y, "GENERAL")
    IN [planned |-> planned,
        alloc |-> a,
        unrestricted |-> unrestricted,
        contributions |-> Min2(unrestricted, ANNUAL_CAP.total) + a.typeA + a.typeB
                          + overflowToBalance(plans, y, planned, a),
        violation |-> capViolation(plans, y, planned, a),
        ledger |-> credit(led, a)]

\* step 3 of an iteration: what allocation a of the planned amounts adds
\* to the balance and to the ledger
settle(plans, led, y, planned, a) ==
    LET unrestricted == BucketAmount(plans, y, "GENERAL")
    IN [planned |-> planned,
        alloc |-> a,
        unrestricted |-> unrestricted,
        contributions |-> unrestricted + a.typeA + a.typeB
                          + overflowToBalance(plans, y, planned, a),
        violation |-> capViolation(plans, y, planned, a),
        ledger |-> credit(led, a)]

\* cap enforcement for the amounts planned for the year
enforceCaps(plans, led, y, planned) ==
    settle(plans, led, y, planned, allocate(led, planned))

\* steps 1-3 of an iteration: derivation, partition, cap enforcement
yearContribution(plans, led, y) ==
    enforceCaps(plans, led, y, annualPlan(plans, y))

\* mutant: the lifetime usage is that of the ledger before the allocation
nisaUsage_beforeAllocation(a, led) ==
    [tsumitate |-> [used |-> a.typeA, remaining |-> ANNUAL_CAP.tsumitate - a.typeA,
                    limit |-> ANNUAL_CAP.tsumitate],
     growth |-> [used |-> a.typeB, remaining |-> ANNUAL_CAP.growth - a.typeB,
                 limit |-> ANNUAL_CAP.growth],
     total |-> [used |-> a.typeA + a.typeB,
                remaining |-> ANNUAL_CAP.total - (a.typeA + a.typeB),
                limit |-> ANNUAL_CAP.total],
     lifetime_tsumitate |-> [used |-> led.tsumitate - a.typeA,
                             remaining |-> LIFETIME_LIMIT.total - (led.tsumitate - a.typeA)],
     lifetime_growth |-> [used |-> led.growth - a.typeB,
                          remaining |-> LIFETIME_LIMIT.growth - (led.growth - a.typeB),
                          limit |-> LIFETIME_LIMIT.growth],
     lifetime_total |-> [used |-> (led.tsumitate - a.typeA) + (led.growth - a.typeB),
                         remaining |-> LIFETIME_LIMIT.total
                                       - ((led.tsumitate - a.typeA) + (led.growth - a.typeB)),
                         limit |-> LIFETIME_LIMIT.total]]

\* the usage snapshot of a year record, taken after the year's allocation
nisaUsage(a, led) ==
    [tsumitate |-> [used |-> a.typeA, remaining |-> ANNUAL_CAP.tsumitate - a.typeA,
                    limit |-> ANNUAL_CAP.tsumitate],
     growth |-> [used |-> a.typeB, remaining |-> ANNUAL_CAP.growth - a.typeB,
                 limit |-> ANNUAL_CAP.growth],
     total |-> [used |-> a.typeA + a.typeB,
                remaining |-> ANNUAL_CAP.total - (a.typeA + a.typeB),
                limit |-> ANNUAL_CAP.total],
     lifetime_tsumitate |-> [used |-> led.tsumitate,
                             remaining |-> LIFETIME_LIMIT.total - led.tsumitate],
     lifetime_growth |-> [used |-> led.growth,
                          remaining |-> LIFETIME_LIMIT.growth - led.growth,
                          limit |-> LIFETIME_LIMIT.growth],
     lifetime_total |-> [used |-> led.tsumitate + led.growth,
                         remaining |-> LIFETIME_LIMIT.total - (led.tsumitate + led.growth),
                         limit |-> LIFETIME_LIMIT.total]]

\* mutant: growth is applied to the starting balance only
yearRecord_growthOnStart(in, bal, y, c) ==
    LET before == bal + c.contributions * Scale(in.rate, in.years)
        grown == (bal \div GrowthDen(in.rate)) * GrowthNum(in.rate)
        ending == grown + c.contributions * Scale(in.rate, in.years)
    IN [year |-> y,
        starting_balance |-> bal,
        contributions |-> c.contributions,
        balance_before_growth |-> before,
        growth_rate |-> in.rate,
        ending_balance |-> ending,
        interest_earned |-> ending - before,
        nisa_usage |-> nisaUsage(c.alloc, c.ledger)]

\* steps 4-5: growth and the emitted year record, for the year's
\* contribution c
yearRecord(in, bal, y, c) ==
    LET before == bal + c.contributions * Scale(in.rate, in.years)
        \* before * (1 + rate); before is a multiple of GrowthDen(rate)
        ending == (before \div GrowthDen(in.rate)) * GrowthNum(in.rate)
    IN [year |-> y,
        starting_balance |-> bal,
        contributions |-> c.contributions,
        balance_before_growth |-> before,
        growth_rate |-> in.rate,
        ending_balance |-> ending,
        interest_earned |-> ending - before,
        nisa_usage |-> nisaUsage(c.alloc, c.ledger)]

----------------------------------------------------------------------------
(* Inputs *)

StartingBalances == {0, 100}

\* past lifetime usage [tsumitate, growth]: none, both limits reached,
\* growth limit reached, little room left, and usage above a limit
PriorUsages ==
    {[tsumitate |-> 0, growth |-> 0],
     [tsumitate |-> 600, growth |-> 1200],
     [tsumitate |-> 0, growth |-> 1200],
     [tsumitate |-> 400, growth |-> 1100],
     [tsumitate |-> 1200, growth |-> 0],
     [tsumitate |-> 0, growth |-> 1300],
     [tsumitate |-> 700, growth |-> 1200]}

YearChoices == {0, 51} \cup (1..MaxYears)

RateChoices == {-101, -100, -5, 0, 5, 100, 101}

\* the composition by region of the holdings: region -> amount; none when
\* there is no holding, amounts of 0 for holdings that are worth nothing
NoComposition == [g \in {} |-> 0]

Compositions ==
    {NoComposition,
     [JP |-> 0, US |-> 0],
     [JP |-> 50, US |-> 50],
     [JP |-> 100, US |-> 0]}

\* the total of a composition
compositionTotal(c) ==
    LET regions == DOMAIN c
        sum[S \in SUBSET regions] ==
            IF S = {} THEN 0
            ELSE LET g == CHOOSE x \in S : TRUE IN c[g] + sum[S \ {g}]
    IN sum[regions]

\* the starting balance is the total of the holdings the composition is of
Stores ==
    {s \in [startingBalance : StartingBalances, plans : PlanSets,
            prior : PriorUsages, composition : Compositions] :
        compositionTotal(s.composition) = s.startingBalance}

Requests == [projection_years : YearChoices, annual_return_rate : RateChoices]

NoSnap ==
    [startingBalance |-> 0, plans |-> {}, prior |-> [tsumitate |-> 0, growth |-> 0],
     composition |-> NoComposition, years |-> 0, rate |-> 0]

NoResult == [status |-> "none"]

----------------------------------------------------------------------------
(* Validation before the loop *)

\* mutant: no lower limit on the rate
requestErrors_noLowerLimit(req) ==
    (IF req.projection_years = 0 \/ req.projection_years < 1 \/ req.projection_years > 50
     THEN {"projectionYears"} ELSE {})
    \cup
    (IF req.annual_return_rate > 100
     THEN {"annualReturnRate"} ELSE {})

\* ProjectionForm.handleSubmit: the fields that fail validation
requestErrors(req) ==
    (IF req.projection_years = 0 \/ req.projection_years < 1 \/ req.projection_years > 50
     THEN {"projectionYears"} ELSE {})
    \cup
    (IF req.annual_return_rate < -100 \/ req.annual_return_rate > 100
     THEN {"annualReturnRate"} ELSE {})

NoViolation == [year |-> 0, bucket |-> "none"]

\* mutant: the last offending year is reported
firstViolation_lastYear(plans, prior, years) ==
    LET led[y \in 0..years] ==
            IF y = 0 THEN prior ELSE yearContribution(plans, led[y - 1], y).ledger
        bucket(y) == yearContribution(plans, led[y - 1], y).violation
        bad == {y \in 1..years : bucket(y) # "none"}
    IN IF bad = {} THEN NoViolation
       ELSE LET last == CHOOSE y \in bad : \A z \in bad : y >= z
            IN [year |-> last, bucket |-> bucket(last)]

\* first year, from year y on, whose allocation overflows a bucket that
\* no contributing plan lets continue past the cap
firstViolation(plans, prior, years) ==
    LET led[y \in 0..years] ==
            IF y = 0 THEN prior ELSE yearContribution(plans, led[y - 1], y).ledger
        bucket(y) == yearContribution(plans, led[y - 1], y).violation
        bad == {y \in 1..years : bucket(y) # "none"}
    IN IF bad = {} THEN NoViolation
       ELSE LET first == CHOOSE y \in bad : \A z \in bad : y <= z
            IN [year |-> first, bucket |-> bucket(first)]

----------------------------------------------------------------------------
(* Forms.  A string is held as the sequence of its characters where they   *)
(* matter: a date "YYYY-MM-DD" as its digits with -1 for "-" (which sorts   *)
(* before every digit), a bonus_months text as the sequence of its comma-   *)
(* separated tokens after trim().                                           *)

\* the value of a number that is not a number (parseInt, parseFloat)
NaN == -1000000

isNaN(x) == x = NaN

\* x <= y, x < y and x > y of JavaScript numbers: false when either is NaN
LessEq(x, y) == ~isNaN(x) /\ ~isNaN(y) /\ x <= y

Less(x, y) == ~isNaN(x) /\ ~isNaN(y) /\ x < y

Greater(x, y) == ~isNaN(x) /\ ~isNaN(y) /\ x > y

\* the number written by a sequence of decimal digits
DigitsValue(digits) ==
    LET v[k \in 0..Len(digits)] == IF k = 0 THEN 0 ELSE 10 * v[k - 1] + digits[k]
    IN v[Len(digits)]

\* a < b of two strings: the first differing character decides, a proper
\* prefix is smaller
StrLess(a, b) ==
    \E k \in 1..Len(b) :
      /\ \A j \in 1..(k - 1) : j <= Len(a) /\ a[j] = b[j]
      /\ IF k <= Len(a) THEN a[k] < b[k] ELSE k = Len(a) + 1

\* the text of a date input: the year in four or more digits, month, day
DateText(yearDigits, month, day) ==
    yearDigits \o <<-1, month \div 10, month % 10, -1, day \div 10, day % 10>>

DateTexts ==
    {<<>>,
     DateText(<<2, 0, 2, 4>>, 12, 31),
     DateText(<<2, 0, 2, 5>>, 1, 1),
     DateText(<<2, 0, 2, 5>>, 6, 30),
     DateText(<<1, 0, 0, 0, 0>>, 1, 1)}

\* a token of the bonus_months text after trim(): its leading digits and
\* whether other characters follow them.  "6" is <<6>> with nothing after,
\* "6x" is <<6>> with rest, a blank token has neither.
Token(digits, rest) == [digits |-> digits, rest |-> rest]

Tokens ==
    {Token(<<>>, FALSE), Token(<<6>>, FALSE), Token(<<1, 2>>, FALSE),
     Token(<<1, 3>>, FALSE), Token(<<0>>, FALSE), Token(<<6>>, TRUE),
     Token(<<>>, TRUE)}

\* parseInt(token, 10): the leading digits, NaN when there are none
parseInt(token) ==
    IF token.digits = <<>> THEN NaN ELSE DigitsValue(token.digits)

MaxMonths == 2

\* the texts of the bonus_months field; <<>> is the empty text
BonusTexts == UNION {[1..n -> Tokens] : n \in 0..MaxMonths}

\* const [formData, setFormData] = useState({...}) without initialData
InitialFormData ==
    [target_asset_name |-> "", target_asset_identifier |-> "",
     target_account_type |-> "NISA_TSUMITATE", target_asset_class |-> "MUTUAL_FUND",
     target_asset_region |-> "DOMESTIC_STOCKS", frequency |-> "MONTHLY",
     amount_jpy |-> 0, start_date |-> <<>>, end_date |-> <<>>,
     bonus_months |-> <<>>, continue_if_limit_exceeded |-> FALSE]

\* amount_jpy after handleChange: parseFloat of the text without commas
AmountChoices == {NaN, -5, 0, 1}

\* the form after the user has edited frequency, amount, dates and bonus
\* months
FormInputs ==
    {[InitialFormData EXCEPT !.frequency = f, !.amount_jpy = a, !.start_date = sd,
                             !.end_date = ed, !.bonus_months = bm] :
       f \in {"DAILY", "MONTHLY", "BONUS_MONTH"}, a \in AmountChoices,
       sd \in DateTexts, ed \in DateTexts, bm \in BonusTexts}

NoSubmission == [called |-> FALSE]

\* PlansForm.validateForm: the fields that get an error
PlansForm_validateForm(fd) ==
    (IF LessEq(fd.amount_jpy, 0) THEN {"amount_jpy"} ELSE {})
    \cup
    (IF fd.start_date = <<>> THEN {"start_date"} ELSE {})
    \cup
    (IF fd.end_date # <<>> /\ fd.start_date # <<>> /\ StrLess(fd.end_date, fd.start_date)
     THEN {"end_date"} ELSE {})
    \cup
    (IF /\ fd.frequency = "BONUS_MONTH"
        /\ \/ fd.bonus_months = <<>>
           \/ \E k \in DOMAIN fd.bonus_months :
                LET month == parseInt(fd.bonus_months[k])
                IN isNaN(month) \/ Less(month, 1) \/ Greater(month, 12)
     THEN {"bonus_months"} ELSE {})

\* submitError after onSubmit: null when it resolved, the message of the
\* Error it threw, or the fixed text used when what it threw is no Error
SubmitOutcomes == {"null", "error.message", "form submission failed"}

----------------------------------------------------------------------------
(* Actions *)

\* no run has started
InitEngine ==
    /\ pc = [r \in Runs |-> "idle"]
    /\ snap = [r \in Runs |-> NoSnap]
    /\ ledger = [r \in Runs |-> [tsumitate |-> 0, growth |-> 0]]
    /\ year = [r \in Runs |-> 0]
    /\ balance = [r \in Runs |-> 0]
    /\ records = [r \in Runs |-> <<>>]
    /\ calls = [r \in Runs |-> <<>>]
    /\ result = [r \in Runs |-> NoResult]
    /\ edits = 0

\* no form has been submitted
InitFormState ==
    /\ errors = [ProjectionForm |-> {}, PlansForm |-> {}]
    /\ submitted = [ProjectionForm |-> NoSubmission, PlansForm |-> NoSubmission]
    /\ submitError = "null"

\* a text of an input as its characters; trim() drops the blanks at both
\* ends
trim(text) ==
    LET inked == {k \in DOMAIN text : text[k] # " "}
    IN IF inked = {} THEN <<>>
       ELSE SubSeq(text, CHOOSE k \in inked : \A j \in inked : k <= j,
                         CHOOSE k \in inked : \A j \in inked : j <= k)

\* the text of the amount input: a sign, groups of digits separated by
\* commas, and whether other characters follow
AmountText(negative, groups, rest) ==
    [negative |-> negative, groups |-> groups, rest |-> rest]

EmptyText == AmountText(FALSE, <<>>, FALSE)

\* value.replace(/,/g, ""): the digits of all groups in a row
withoutCommas(text) ==
    LET joined[k \in 0..Len(text.groups)] ==
            IF k = 0 THEN <<>> ELSE joined[k - 1] \o text.groups[k]
    IN joined[Len(text.groups)]

\* parseFloat of the text without commas: NaN when no digit leads
parseFloat(text) ==
    LET digits == withoutCommas(text)
    IN IF digits = <<>> THEN NaN
       ELSE IF text.negative THEN 0 - DigitsValue(digits) ELSE DigitsValue(digits)

\* the digits of n, in at least width places
digitsOf(n, width) ==
    LET d[k \in 0..6] ==
            IF k = 0 THEN <<>>
            ELSE IF Pow(10, k - 1) > n /\ k > width THEN d[k - 1]
            ELSE <<(n \div Pow(10, k - 1)) % 10>> \o d[k - 1]
    IN d[6]

\* Number.toLocaleString("ja-JP"): groups of three digits
toLocaleString(n) ==
    LET m == IF n < 0 THEN 0 - n ELSE n
    IN AmountText(n < 0,
                  IF m < 1000 THEN <<digitsOf(m, 1)>>
                  ELSE <<digitsOf(m \div 1000, 1), digitsOf(m % 1000, 3)>>,
                  FALSE)

\* HoldingsForm without initialValues (a creation) or with those of the
\* holding that is edited
HoldingsForm_initial(isEditing) ==
    [isEditing |-> isEditing,
     formData |-> IF isEditing
                  THEN [asset_identifier |-> <<"J">>, asset_name |-> <<"F">>,
                        current_amount_jpy |-> 1000]
                  ELSE [asset_identifier |-> <<>>, asset_name |-> <<>>,
                        current_amount_jpy |-> 0],
     amountDisplay |-> IF isEditing THEN toLocaleString(1000) ELSE EmptyText,
     errors |-> {},
     formError |-> "",
     loading |-> FALSE,
     inFlight |-> <<>>,
     submits |-> 0,
     callback |-> [name |-> "none", arg |-> ""]]

\* AuthProvider before its effect has run: useState(null), useState(true);
\* stored is the 'user' entry of localStorage: 0 when there is none, the id
\* of a user, or -1 for a text that JSON.parse rejects
AuthProvider_initial(stored) ==
    [user |-> 0, isLoading |-> TRUE, stored |-> stored,
     me |-> "idle", logout |-> "idle", login |-> "idle", loggedOut |-> FALSE]

\* asPath of the pages wrapped by withAuth, as their characters
ProtectedPaths ==
    {<<"/", "plans">>, <<"/", "plans", "?", "page", "=", "2">>}

\* the router on a page: its asPath, the router.push calls whose route
\* change is not complete, and what the page shows
Router_initial(path) ==
    [path |-> path, pushed |-> {}, view |-> "placeholder"]

\* PlansPage before its first load: useState of PageState
PlansPage_initial ==
    [plans |-> 0, error |-> "none", currentPage |-> 1, totalPages |-> 1,
     reload |-> [after |-> "none", page |-> 1]]

\* a backend with a session and one holding, no API call made, the form for
\* a new holding, and the application starting on the plans page
InitUi ==
    /\ server = [session |-> TRUE, holdings |-> {1}]
    /\ api = [called |-> FALSE]
    /\ holdingsForm = HoldingsForm_initial(FALSE)
    /\ auth = AuthProvider_initial(0)
    /\ route = Router_initial(<<"/", "plans">>)
    /\ plansPage = PlansPage_initial
    /\ planRows = 0

\* the holdings are all of one region, or there is none
Init ==
    /\ store \in Stores
    /\ store.composition \in {NoComposition, [JP |-> 100, US |-> 0]}
    /\ request \in Requests
    /\ InitEngine
    /\ formData = InitialFormData
    /\ InitFormState
    /\ InitUi

\* the inputs of a run, read once from the stores and the request
readInputs ==
    [startingBalance |-> store.startingBalance, plans |-> store.plans,
     prior |-> store.prior, composition |-> store.composition,
     years |-> request.projection_years,
     rate |-> request.annual_return_rate]

\* runProjection: validate, then create the ledger from the past usage
Start(r) ==
    /\ pc[r] = "idle"
    /\ LET in == readInputs
           errs == requestErrors(request)
           v == IF errs = {} THEN firstViolation(in.plans, in.prior, in.years)
                ELSE NoViolation
       IN /\ snap' = [snap EXCEPT ![r] = in]
          /\ IF errs # {}
             THEN /\ pc' = [pc EXCEPT ![r] = "rejected"]
                  /\ result' = [result EXCEPT ![r] =
                         [status |-> "InputValidationError", fields |-> errs]]
                  /\ UNCHANGED <<ledger, balance>>
             ELSE IF v.bucket # "none"
             THEN /\ pc' = [pc EXCEPT ![r] = "rejected"]
                  /\ result' = [result EXCEPT ![r] =
                         [status |-> "CapViolationError", year |-> v.year,
                          bucket |-> v.bucket]]
                  /\ UNCHANGED <<ledger, balance>>
             ELSE /\ pc' = [pc EXCEPT ![r] = "running"]
                  /\ ledger' = [ledger EXCEPT ![r] = in.prior]
                  /\ balance' = [balance EXCEPT ![r] =
                         in.startingBalance * Scale(in.rate, in.years)]
                  /\ UNCHANGED result
    /\ UNCHANGED <<store, request, year, records, calls, edits, formVars, uiVars>>

\* mutant: the next year starts from the balance before growth
StepYear_carryBeforeGrowth(r) ==
    /\ pc[r] = "running"
    /\ year[r] < snap[r].years
    /\ \E y \in {year[r] + 1} :
       \E planned \in {annualPlan(snap[r].plans, y)} :
       \E a \in {allocate(ledger[r], planned)} :
       \E c \in {settle(snap[r].plans, ledger[r], y, planned, a)} :
       \E rec \in {yearRecord(snap[r], balance[r], y, c)} :
          /\ ledger' = [ledger EXCEPT ![r] = c.ledger]
          /\ balance' = [balance EXCEPT ![r] = rec.balance_before_growth]
          /\ records' = [records EXCEPT ![r] = Append(@, rec)]
          /\ calls' = [calls EXCEPT ![r] =
                 Append(@, [year |-> y, before |-> ledger[r],
                            proposed |-> c.planned, out |-> c.alloc,
                            unrestricted |-> c.unrestricted])]
          /\ year' = [year EXCEPT ![r] = y]
    /\ UNCHANGED <<store, request, pc, snap, result, edits, formVars, uiVars>>

\* mutant: every run uses the ledger of run 1
StepYear_sharedLedger(r) ==
    /\ pc[r] = "running"
    /\ year[r] < snap[r].years
    /\ \E y \in {year[r] + 1} :
       \E planned \in {annualPlan(snap[r].plans, y)} :
       \E a \in {allocate(ledger[1], planned)} :
       \E c \in {settle(snap[r].plans, ledger[1], y, planned, a)} :
       \E rec \in {yearRecord(snap[r], balance[r], y, c)} :
          /\ ledger' = [ledger EXCEPT ![1] = c.ledger]
          /\ balance' = [balance EXCEPT ![r] = rec.ending_balance]
          /\ records' = [records EXCEPT ![r] = Append(@, rec)]
          /\ calls' = [calls EXCEPT ![r] =
                 Append(@, [year |-> y, before |-> ledger[1],
                            proposed |-> c.planned, out |-> c.alloc,
                            unrestricted |-> c.unrestricted])]
          /\ year' = [year EXCEPT ![r] = y]
    /\ UNCHANGED <<store, request, pc, snap, result, edits, formVars, uiVars>>

\* mutant: a year that finds the lifetime total room used up ends the run
\* with an error
StepYear_failOnExhausted(r) ==
    /\ pc[r] = "running"
    /\ year[r] < snap[r].years
    /\ \E y \in {year[r] + 1} :
       \E planned \in {annualPlan(snap[r].plans, y)} :
       \E a \in {allocate(ledger[r], planned)} :
       \E c \in {settle(snap[r].plans, ledger[r], y, planned, a)} :
       \E rec \in {yearRecord(snap[r], balance[r], y, c)} :
          IF lifetimeRem(ledger[r]).total <= 0
          THEN /\ pc' = [pc EXCEPT ![r] = "rejected"]
               /\ result' = [result EXCEPT ![r] =
                      [status |-> "CapViolationError", year |-> y, bucket |-> "total"]]
               /\ UNCHANGED <<ledger, balance, records, calls, year>>
          ELSE /\ ledger' = [ledger EXCEPT ![r] = c.ledger]
               /\ balance' = [balance EXCEPT ![r] = rec.ending_balance]
               /\ records' = [records EXCEPT ![r] = Append(@, rec)]
               /\ calls' = [calls EXCEPT ![r] =
                      Append(@, [year |-> y, before |-> ledger[r],
                                 proposed |-> c.planned, out |-> c.alloc,
                                 unrestricted |-> c.unrestricted])]
               /\ year' = [year EXCEPT ![r] = y]
               /\ UNCHANGED <<pc, result>>
    /\ UNCHANGED <<store, request, snap, edits, formVars, uiVars>>

\* one iteration of the loop
StepYear(r) ==
    /\ pc[r] = "running"
    /\ year[r] < snap[r].years
    /\ \E y \in {year[r] + 1} :
       \E planned \in {annualPlan(snap[r].plans, y)} :
       \E a \in {allocate(ledger[r], planned)} :
       \E c \in {settle(snap[r].plans, ledger[r], y, planned, a)} :
       \E rec \in {yearRecord(snap[r], balance[r], y, c)} :
          /\ ledger' = [ledger EXCEPT ![r] = c.ledger]
          /\ balance' = [balance EXCEPT ![r] = rec.ending_balance]
          /\ records' = [records EXCEPT ![r] = Append(@, rec)]
          /\ calls' = [calls EXCEPT ![r] =
                 Append(@, [year |-> y, before |-> ledger[r],
                            proposed |-> c.planned, out |-> c.alloc,
                            unrestricted |-> c.unrestricted])]
          /\ year' = [year EXCEPT ![r] = y]
    /\ UNCHANGED <<store, request, pc, snap, result, edits, formVars, uiVars>>

\* mutant: the interest gains are the final value less the starting balance
projectionResult_gainsWithContributions(in, recs, bal) ==
    LET scale == Scale(in.rate, in.years)
        contributed == SumSeq([k \in DOMAIN recs |-> recs[k].contributions], Len(recs))
    IN [status |-> "ok",
        projection_years |-> in.years,
        annual_return_rate |-> in.rate,
        starting_balance_jpy |-> in.startingBalance * scale,
        total_accumulated_contributions_jpy |-> contributed,
        total_interest_gains_jpy |-> bal - in.startingBalance * scale,
        projected_total_value_jpy |-> bal]

\* the aggregate returned after the last year
projectionResult(in, recs, bal) ==
    LET scale == Scale(in.rate, in.years)
        contributed == SumSeq([k \in DOMAIN recs |-> recs[k].contributions], Len(recs))
    IN [status |-> "ok",
        projection_years |-> in.years,
        annual_return_rate |-> in.rate,
        starting_balance_jpy |-> in.startingBalance * scale,
        total_accumulated_contributions_jpy |-> contributed,
        total_interest_gains_jpy |->
            bal - in.startingBalance * scale - contributed * scale,
        projected_total_value_jpy |-> bal]

\* an amount of the projected composition: share of the starting balance
\* times the final balance, as a fraction (of the unit of the balances)
scaled(amount, startingBalance, bal) ==
    LET g == GCD(amount, startingBalance)
    IN [num |-> (amount \div g) * bal, den |-> startingBalance \div g]

\* mutant: every region gets an equal part of the final balance
projectedCompositions_equalParts(in, bal) ==
    IF in.startingBalance = 0
    THEN {NoComposition, [g \in DOMAIN in.composition |-> [num |-> 0, den |-> 1]]}
    ELSE {[g \in DOMAIN in.composition |->
              [num |-> bal, den |-> Cardinality(DOMAIN in.composition)]]}

\* the composition after the last year: every region scaled by the ratio
\* final balance / starting balance.  With a starting balance of 0 there is
\* no ratio; the run does not fail, and the composition it returns is then
\* either empty or made of amounts of 0
projectedCompositions(in, bal) ==
    IF in.startingBalance = 0
    THEN {NoComposition, [g \in DOMAIN in.composition |-> [num |-> 0, den |-> 1]]}
    ELSE {[g \in DOMAIN in.composition |->
              scaled(in.composition[g], in.startingBalance, bal)]}

\* a result together with its projected composition
withComposition(res, comp) ==
    [f \in DOMAIN res \cup {"projected_composition_by_region"} |->
        IF f = "projected_composition_by_region" THEN comp ELSE res[f]]

Finish(r) ==
    /\ pc[r] = "running"
    /\ year[r] = snap[r].years
    /\ pc' = [pc EXCEPT ![r] = "done"]
    /\ \E comp \in projectedCompositions(snap[r], balance[r]) :
         result' = [result EXCEPT ![r] =
             withComposition(projectionResult(snap[r], records[r], balance[r]), comp)]
    /\ UNCHANGED <<store, request, snap, ledger, year, balance, records, calls, edits,
                   formVars, uiVars>>

\* the plans that are added to or removed from the store while runs go on
EditedPlans == {2, 3}

\* the plan store changes between or during runs (a plan is added or removed)
StoreChange ==
    /\ edits < MaxEdits
    /\ \E i \in EditedPlans :
         LET plans == IF i \in store.plans THEN store.plans \ {i}
                      ELSE store.plans \cup {i}
         IN /\ plans \in PlanSets
            /\ store' = [store EXCEPT !.plans = plans]
    /\ edits' = edits + 1
    /\ UNCHANGED <<request, pc, snap, ledger, year, balance, records, calls, result,
                   formVars, uiVars>>

Run(r) == Start(r) \/ StepYear(r) \/ Finish(r)

\* ProjectionForm.handleSubmit on the fields held in request: errors are
\* reset and set again, and onSubmit gets the two values when there is none
ProjectionForm_handleSubmit ==
    /\ \E newErrors \in {requestErrors(request)} :
         /\ errors' = [errors EXCEPT !.ProjectionForm = newErrors]
         /\ IF newErrors # {}
            THEN UNCHANGED submitted
            ELSE submitted' = [submitted EXCEPT !.ProjectionForm =
                     [projection_years |-> request.projection_years,
                      annual_return_rate |-> request.annual_return_rate]]
    /\ UNCHANGED <<store, request, pc, snap, ledger, year, balance, records, calls,
                   result, edits, formData, submitError, uiVars>>

\* a single projection run, and the form that asks for one
Next == Run(1) \/ ProjectionForm_handleSubmit

Spec == Init /\ [][Next]_vars

\* two projection runs of the same request, interleaved with each other and
\* with changes of the plan store
InitRuns ==
    /\ Init
    /\ store.startingBalance = 100
    /\ store.plans \subseteq {2, 3, 5}
    /\ store.prior \in {[tsumitate |-> 0, growth |-> 0],
                       [tsumitate |-> 1200, growth |-> 0]}
    /\ request.projection_years \in {2, MaxYears}
    /\ request.annual_return_rate = 5

NextRuns == (\E r \in Runs : Run(r)) \/ StoreChange

SpecRuns == InitRuns /\ [][NextRuns]_vars

\* a single run whose loop is not suspended: the engine is a synchronous
\* computation without suspension points, so an iteration that is possible
\* is taken and the result is returned after the last one
InitLive ==
    /\ Init
    /\ store.startingBalance = 100
    /\ store.prior \in {[tsumitate |-> 0, growth |-> 0],
                       [tsumitate |-> 600, growth |-> 1200],
                       [tsumitate |-> 0, growth |-> 1300]}
    /\ request.projection_years \in {0, 1, MaxYears}
    /\ request.annual_return_rate \in {-100, 5}

\* a single run over every composition of the holdings
InitComposition ==
    /\ store \in Stores
    /\ store.plans \subseteq {1, 5}
    /\ store.prior = [tsumitate |-> 0, growth |-> 0]
    /\ request \in Requests
    /\ request.projection_years \in 1..MaxYears
    /\ request.annual_return_rate \in {-100, -5, 0, 5}
    /\ InitEngine
    /\ formData = InitialFormData
    /\ InitFormState
    /\ InitUi

SpecComposition == InitComposition /\ [][Next]_vars

\* PlansForm.handleSubmit: validate, then await onSubmit(formData), which
\* resolves or throws
PlansForm_handleSubmit ==
    /\ \E newErrors \in {PlansForm_validateForm(formData)} :
         /\ errors' = [errors EXCEPT !.PlansForm = newErrors]
         /\ IF newErrors # {}
            THEN /\ submitError' = "null"
                 /\ UNCHANGED submitted
            ELSE /\ submitted' = [submitted EXCEPT !.PlansForm = formData]
                 /\ submitError' \in SubmitOutcomes
    /\ UNCHANGED <<store, request, pc, snap, ledger, year, balance, records, calls,
                   result, edits, formData, uiVars>>

\* the plan form, filled in and submitted
InitForms ==
    /\ store = [startingBalance |-> 0, plans |-> {},
                prior |-> [tsumitate |-> 0, growth |-> 0],
                composition |-> NoComposition]
    /\ request = [projection_years |-> 1, annual_return_rate |-> 0]
    /\ InitEngine
    /\ formData \in FormInputs
    /\ InitFormState
    /\ InitUi

NextForms == PlansForm_handleSubmit

SpecForms == InitForms /\ [][NextForms]_vars

\* the values typed or chosen in a field of the plan form; the bonus_months
\* textarea is rendered only while the frequency is BONUS_MONTH
FieldEdits(fd) ==
    {[name |-> "frequency", value |-> f] : f \in {"DAILY", "MONTHLY", "BONUS_MONTH"}}
    \cup {[name |-> "amount_jpy", value |-> a] : a \in {0, 1}}
    \cup {[name |-> "start_date", value |-> sd] :
            sd \in {<<>>, DateText(<<2, 0, 2, 5>>, 1, 1)}}
    \cup (IF fd.frequency = "BONUS_MONTH"
          THEN {[name |-> "bonus_months", value |-> bm] :
                  bm \in {<<>>, <<Token(<<>>, FALSE)>>, <<Token(<<6>>, FALSE)>>,
                          <<Token(<<6>>, FALSE), Token(<<1, 2>>, FALSE)>>}}
          ELSE {})

\* PlansForm.handleChange: the error of the field is cleared and the field
\* gets the value; no other field changes
PlansForm_handleChange ==
    /\ \E edit \in FieldEdits(formData) :
         /\ errors' = [errors EXCEPT !.PlansForm = @ \ {edit.name}]
         /\ formData' =
              IF edit.name = "frequency"
              THEN [formData EXCEPT !.frequency = edit.value]
              ELSE IF edit.name = "amount_jpy"
              THEN [formData EXCEPT !.amount_jpy = edit.value]
              ELSE IF edit.name = "start_date"
              THEN [formData EXCEPT !.start_date = edit.value]
              ELSE [formData EXCEPT !.bonus_months = edit.value]
    /\ UNCHANGED <<engineVars, submitted, submitError, uiVars>>

\* the plan form for a new plan, edited field by field and submitted
InitPlanEdits ==
    /\ store = [startingBalance |-> 0, plans |-> {},
                prior |-> [tsumitate |-> 0, growth |-> 0],
                composition |-> NoComposition]
    /\ request = [projection_years |-> 1, annual_return_rate |-> 0]
    /\ InitEngine
    /\ formData = InitialFormData
    /\ InitFormState
    /\ InitUi

NextPlanEdits ==
    \/ PlansForm_handleChange
    \/ PlansForm_handleSubmit

SpecPlanEdits == InitPlanEdits /\ [][NextPlanEdits]_vars

SpecLive == InitLive /\ [][Next]_vars /\ WF_vars(StepYear(1)) /\ WF_vars(Finish(1))

----------------------------------------------------------------------------
(* The API client *)

\* no projection is asked for and no form is touched
InitIdle ==
    /\ store = [startingBalance |-> 0, plans |-> {},
                prior |-> [tsumitate |-> 0, growth |-> 0],
                composition |-> NoComposition]
    /\ request = [projection_years |-> 1, annual_return_rate |-> 0]
    /\ InitEngine
    /\ formData = InitialFormData
    /\ InitFormState

HoldingIds == {1, 2}

\* an HTTP response: the status, whether the content type is JSON, and what
\* the body is: an object with a detail, an object of field errors, an empty
\* object, null, the data asked for, or text that is not JSON
Response(status, contentType, body) ==
    [status |-> status, contentType |-> contentType, body |-> body]

\* Response.ok
ok(response) == response.status \in 200..299

\* the calls of the client that stand for the others: all go through
\* apiRequest
ApiCalls ==
    {[op |-> "auth.login", arg |-> 1], [op |-> "auth.login", arg |-> 0],
     [op |-> "auth.me", arg |-> 0], [op |-> "auth.logout", arg |-> 0],
     [op |-> "holdings.create", arg |-> 0]}
    \cup {[op |-> o, arg |-> i] : o \in {"holdings.get", "holdings.delete"},
                                 i \in HoldingIds}

\* what the backend answers to a call and what it stores afterwards (login
\* with arg 1 has valid credentials, with arg 0 invalid ones)
handle(call, sv) ==
    LET reply(status, contentType, body, after) ==
            [response |-> Response(status, contentType, body), server |-> after]
        free == HoldingIds \ sv.holdings
    IN IF call.op = "auth.login"
       THEN IF call.arg = 1
            THEN reply(200, "application/json", "data", [sv EXCEPT !.session = TRUE])
            ELSE reply(401, "application/json", "detail", sv)
       ELSE IF call.op = "auth.logout"
       THEN reply(200, "application/json", "data", [sv EXCEPT !.session = FALSE])
       ELSE IF ~sv.session
       THEN reply(403, "application/json", "detail", sv)
       ELSE IF call.op = "auth.me"
       THEN reply(200, "application/json", "data", sv)
       ELSE IF call.op = "holdings.create"
       THEN IF free = {}
            THEN reply(400, "application/json", "fields", sv)
            ELSE reply(201, "application/json", "data",
                       [sv EXCEPT !.holdings = @ \cup {CHOOSE i \in free : TRUE}])
       ELSE IF call.arg \notin sv.holdings
       THEN reply(404, "application/json", "detail", sv)
       ELSE IF call.op = "holdings.delete"
       THEN reply(204, "", "not JSON", [sv EXCEPT !.holdings = @ \ {call.arg}])
       ELSE reply(200, "application/json", "data", sv)

\* answers that do not come from the backend's handlers: a failing server
\* or a proxy in between
GatewayResponses ==
    {Response(500, "text/html", "not JSON"),
     Response(500, "application/json", "null"),
     Response(502, "", "not JSON"),
     Response(400, "application/json", "empty object"),
     Response(200, "text/html", "not JSON"),
     Response(200, "application/json", "not JSON")}

resolved(value) == [kind |-> "resolved", value |-> value]

rejected(status, message, data) ==
    [kind |-> "rejected", status |-> status, message |-> message, data |-> data]

\* response.json(), with the value to use when the body is not JSON
json(response, fallback) ==
    IF response.body = "not JSON" THEN fallback ELSE response.body

\* mutant: the body of every response is parsed and returned, whatever the
\* status
apiRequest_ignoreStatus(response) ==
    IF response.status = 204 \/ response.contentType # "application/json"
    THEN resolved("undefined")
    ELSE resolved(json(response, "undefined"))

\* apiRequest, from the response on: a response that is not ok is thrown as
\* an error with its status, a 204 or a body that is not JSON gives undefined
apiRequest(response) ==
    IF ~ok(response)
    THEN IF response.status \in {401, 403}
         THEN rejected(response.status, "authentication required", "undefined")
         ELSE LET errorData == json(response, "empty object")
                  message == IF errorData = "detail" THEN "detail"
                             ELSE IF errorData \in {"fields", "data"}
                             THEN "field errors"
                             ELSE "HTTP status: statusText"
              IN rejected(response.status, message, errorData)
    ELSE IF response.status = 204
    THEN resolved("undefined")
    ELSE IF response.contentType # "application/json"
    THEN resolved("undefined")
    ELSE resolved(json(response, "undefined"))

\* a call of the client: the request is sent, the backend or a gateway
\* answers, and apiRequest settles the promise
ApiCall ==
    /\ \E call \in ApiCalls :
       \E served \in {handle(call, server)} :
       \E answer \in {[response |-> served.response, server |-> served.server,
                       byBackend |-> TRUE]}
                     \cup {[response |-> g, server |-> server, byBackend |-> FALSE] :
                              g \in GatewayResponses} :
          /\ server' = answer.server
          /\ api' = [called |-> TRUE, call |-> call, response |-> answer.response,
                     byBackend |-> answer.byBackend, before |-> server,
                     outcome |-> apiRequest(answer.response)]
    /\ UNCHANGED <<engineVars, formVars, pageVars, holdingsForm, auth, route>>

InitApi == InitIdle /\ InitUi

----------------------------------------------------------------------------
(* HoldingsForm *)

MaxSubmits == 2

\* what the user types into the text inputs
TextChoices == {<<>>, <<" ">>, <<" ", "J">>}

\* what the user types into the amount input: nothing, "-", "-1000",
\* "1,000" and "12a"
AmountTexts ==
    {EmptyText,
     AmountText(TRUE, <<>>, FALSE),
     AmountText(TRUE, <<<<1, 0, 0, 0>>>>, FALSE),
     AmountText(FALSE, <<<<1>>, <<0, 0, 0>>>>, FALSE),
     AmountText(FALSE, <<<<1, 2>>>>, TRUE)}

\* HoldingsForm.handleChange of the amount input
HoldingsForm_changeAmount(hf, value) ==
    LET cleared == [hf EXCEPT !.errors = @ \ {"current_amount_jpy"}]
        parsedValue == parseFloat(value)
    IN IF withoutCommas(value) = <<>> /\ ~value.negative /\ ~value.rest
       THEN [cleared EXCEPT !.formData.current_amount_jpy = 0,
                            !.amountDisplay = EmptyText]
       ELSE IF isNaN(parsedValue)
       THEN [cleared EXCEPT !.amountDisplay = value]
       ELSE [cleared EXCEPT !.formData.current_amount_jpy = parsedValue,
                            !.amountDisplay = toLocaleString(parsedValue)]

\* HoldingsForm.handleChange of a text input
HoldingsForm_changeText(hf, name, value) ==
    [hf EXCEPT !.formData[name] = value, !.errors = @ \ {name}]

\* the user edits a field; the inputs stay enabled while a call is in flight
HoldingsForm_handleChange ==
    /\ \/ \E value \in AmountTexts :
            holdingsForm' = HoldingsForm_changeAmount(holdingsForm, value)
       \/ \E name \in {"asset_identifier", "asset_name"}, value \in TextChoices :
            holdingsForm' = HoldingsForm_changeText(holdingsForm, name, value)
    /\ UNCHANGED <<engineVars, formVars, pageVars, server, api, auth, route>>

\* mutant: the amount is not validated
HoldingsForm_validateForm_anyAmount(fd) ==
    (IF trim(fd.asset_identifier) = <<>> THEN {"asset_identifier"} ELSE {})
    \cup
    (IF trim(fd.asset_name) = <<>> THEN {"asset_name"} ELSE {})

\* HoldingsForm.validateForm: the fields that get an error
HoldingsForm_validateForm(fd) ==
    (IF trim(fd.asset_identifier) = <<>> THEN {"asset_identifier"} ELSE {})
    \cup
    (IF trim(fd.asset_name) = <<>> THEN {"asset_name"} ELSE {})
    \cup
    (IF Less(fd.current_amount_jpy, 0) THEN {"current_amount_jpy"} ELSE {})

\* HoldingsForm.handleSubmit up to the await: validate, then set loading
\* and call api.holdings.update or create with the fields.  The submit
\* button is disabled while loading.
HoldingsForm_handleSubmit ==
    /\ ~holdingsForm.loading
    /\ holdingsForm.submits < MaxSubmits
    /\ \E newErrors \in {HoldingsForm_validateForm(holdingsForm.formData)} :
         holdingsForm' =
           IF newErrors # {}
           THEN [holdingsForm EXCEPT
                    !.errors = newErrors, !.formError = "",
                    !.submits = @ + 1]
           ELSE [holdingsForm EXCEPT
                    !.errors = {}, !.formError = "",
                    !.loading = TRUE,
                    !.inFlight = <<[op |-> IF holdingsForm.isEditing
                                           THEN "holdings.update"
                                           ELSE "holdings.create",
                                    arg |-> holdingsForm.formData]>>,
                    !.submits = @ + 1]
    /\ UNCHANGED <<engineVars, formVars, pageVars, server, api, auth, route>>

\* how a call of the form ends: apiRequest on the response, or the error
\* of a fetch that got no response
HoldingsOutcomes ==
    {apiRequest(response) :
        response \in {Response(201, "application/json", "data"),
                      Response(200, "text/html", "not JSON"),
                      Response(400, "application/json", "detail"),
                      Response(400, "application/json", "fields"),
                      Response(403, "application/json", "detail"),
                      Response(500, "text/html", "not JSON")}}
    \cup {rejected(0, "Failed to fetch", "undefined")}

\* err.data?.detail || err.message || the fixed text
errorMessage(err) ==
    IF err.data = "detail" THEN "detail"
    ELSE IF err.message # "" THEN err.message
    ELSE "saving the holding failed"

\* mutant: a failure leaves the form loading
HoldingsForm_settled_keepsLoading(hf, outcome) ==
    IF outcome.kind = "resolved"
    THEN LET done == [hf EXCEPT !.loading = FALSE, !.inFlight = <<>>,
                         !.callback = [name |-> "onSuccess",
                                       arg |-> outcome.value]]
         IN IF hf.isEditing THEN done
            ELSE [done EXCEPT
                     !.formData = HoldingsForm_initial(FALSE).formData,
                     !.amountDisplay = EmptyText]
    ELSE [hf EXCEPT !.inFlight = <<>>,
                    !.errors = {}, !.formError = errorMessage(outcome),
                    !.callback = [name |-> "onError",
                                  arg |-> errorMessage(outcome)]]

\* HoldingsForm.handleSubmit after the await: onSuccess and the reset of a
\* creation, or the form error and onError; loading ends in both cases
HoldingsForm_settled(hf, outcome) ==
    IF outcome.kind = "resolved"
    THEN LET done == [hf EXCEPT !.loading = FALSE, !.inFlight = <<>>,
                         !.callback = [name |-> "onSuccess",
                                       arg |-> outcome.value]]
         IN IF hf.isEditing THEN done
            ELSE [done EXCEPT
                     !.formData = HoldingsForm_initial(FALSE).formData,
                     !.amountDisplay = EmptyText]
    ELSE [hf EXCEPT !.loading = FALSE, !.inFlight = <<>>,
                    !.errors = {}, !.formError = errorMessage(outcome),
                    !.callback = [name |-> "onError",
                                  arg |-> errorMessage(outcome)]]

\* the call in flight resolves or rejects
HoldingsForm_settle ==
    /\ holdingsForm.inFlight # <<>>
    /\ \E outcome \in HoldingsOutcomes :
         /\ api' = [called |-> TRUE, call |-> holdingsForm.inFlight[1].op,
                    outcome |-> outcome]
         /\ holdingsForm' = HoldingsForm_settled(holdingsForm, outcome)
    /\ UNCHANGED <<engineVars, formVars, pageVars, server, auth, route>>

InitHoldings ==
    /\ InitIdle
    /\ server = [session |-> TRUE, holdings |-> {1}]
    /\ api = [called |-> FALSE]
    /\ \E isEditing \in BOOLEAN : holdingsForm = HoldingsForm_initial(isEditing)
    /\ auth = AuthProvider_initial(0)
    /\ route = Router_initial(<<"/", "plans">>)
    /\ plansPage = PlansPage_initial
    /\ planRows = 0

NextHoldings ==
    HoldingsForm_handleChange \/ HoldingsForm_handleSubmit \/ HoldingsForm_settle

SpecHoldings == InitHoldings /\ [][NextHoldings]_vars

----------------------------------------------------------------------------
(* AuthProvider, withAuth and the login page *)

\* the user of the backend's session
ServerUser == 1

\* encodeURIComponent: "/", "?" and "=" are escaped
encodeURIComponent(text) ==
    [k \in DOMAIN text |->
        IF text[k] = "/" THEN "%2F"
        ELSE IF text[k] = "?" THEN "%3F"
        ELSE IF text[k] = "=" THEN "%3D"
        ELSE text[k]]

\* decodeURIComponent, which the router applies to the values of the query
decodeURIComponent(text) ==
    [k \in DOMAIN text |->
        IF text[k] = "%2F" THEN "/"
        ELSE IF text[k] = "%3F" THEN "?"
        ELSE IF text[k] = "%3D" THEN "="
        ELSE text[k]]

\* '/login'
LoginPath == <<"/", "login">>

\* `/login?returnUrl=${encodeURIComponent(returnUrl)}`
LoginUrl(returnUrl) ==
    LoginPath \o <<"?", "returnUrl", "=">> \o encodeURIComponent(returnUrl)

\* the page of an asPath is the login page
IsLoginPage(path) ==
    Len(path) >= 2 /\ SubSeq(path, 1, 2) = LoginPath

\* router.query.returnUrl of an asPath; <<>> when the query has none
Router_query_returnUrl(path) ==
    IF Len(path) > 5 /\ SubSeq(path, 3, 5) = <<"?", "returnUrl", "=">>
    THEN decodeURIComponent(SubSeq(path, 6, Len(path)))
    ELSE <<>>

\* mutant: the component is rendered as soon as there is a user
withAuth_render_ignoreLoading(a) ==
    IF a.user = 0 THEN "placeholder" ELSE "component"

\* what ProtectedRoute returns
withAuth_render(a) ==
    IF a.isLoading \/ a.user = 0 THEN "placeholder" ELSE "component"

\* ProtectedRoute after a change of the auth state from old to a, or after
\* its mount: it is rendered, and its effect pushes the login page when
\* loading is over without a user
ProtectedRoute(old, a, rt, mount) ==
    IF IsLoginPage(rt.path)
    THEN [rt EXCEPT !.view = "login page"]
    ELSE [rt EXCEPT
            !.view = withAuth_render(a),
            !.pushed = IF /\ mount \/ old.user # a.user
                                   \/ old.isLoading # a.isLoading
                          /\ ~a.isLoading
                          /\ a.user = 0
                       THEN @ \cup {LoginUrl(rt.path)}
                       ELSE @]

\* AuthProvider's effect at the first load: the stored user is restored for
\* the time being and auth/me is requested
AuthProvider_useEffect ==
    /\ auth.me = "idle"
    /\ \E a \in {[auth EXCEPT !.me = "sent",
                               !.user = IF auth.stored > 0 THEN auth.stored ELSE @,
                               !.stored = IF auth.stored = -1 THEN 0 ELSE @]} :
         /\ auth' = a
         /\ route' = ProtectedRoute(auth, a, route, TRUE)
    /\ UNCHANGED <<engineVars, formVars, pageVars, server, api, holdingsForm>>

\* how a request ends once the backend has answered, or without an answer
Answers(call) ==
    {apiRequest(handle(call, server).response).kind, "rejected"}

\* the backend answers auth/me; the answer has not reached the client yet
Backend_me ==
    /\ auth.me = "sent"
    /\ \E kind \in Answers([op |-> "auth.me", arg |-> 0]) :
         auth' = [auth EXCEPT !.me = kind]
    /\ UNCHANGED <<engineVars, formVars, pageVars, server, api, holdingsForm, route>>

\* the continuation of await api.auth.me(): the user of the session is set
\* and stored, a failure is ignored, and loading is over
AuthProvider_meSettled ==
    /\ auth.me \in {"resolved", "rejected"}
    /\ \E a \in {IF auth.me = "resolved"
                  THEN [auth EXCEPT !.me = "done", !.isLoading = FALSE,
                                    !.user = ServerUser, !.stored = ServerUser]
                  ELSE [auth EXCEPT !.me = "done", !.isLoading = FALSE]} :
         /\ auth' = a
         /\ route' = ProtectedRoute(auth, a, route, FALSE)
    /\ UNCHANGED <<engineVars, formVars, pageVars, server, api, holdingsForm>>

\* Layout.handleLogout calls logout(): the button is shown on every page
\* but the login page when there is a user
AuthProvider_logout ==
    /\ auth.me # "idle"
    /\ auth.logout = "idle"
    /\ auth.user # 0
    /\ ~IsLoginPage(route.path)
    /\ auth' = [auth EXCEPT !.logout = "sent"]
    /\ UNCHANGED <<engineVars, formVars, pageVars, server, api, holdingsForm, route>>

\* the backend ends the session, or the request fails before it gets there
Backend_logout ==
    /\ auth.logout = "sent"
    /\ \/ /\ server' = handle([op |-> "auth.logout", arg |-> 0], server).server
          /\ auth' = [auth EXCEPT !.logout = "resolved"]
       \/ /\ auth' = [auth EXCEPT !.logout = "rejected"]
          /\ UNCHANGED server
    /\ UNCHANGED <<engineVars, formVars, pageVars, api, holdingsForm, route>>

\* the finally of logout(), whatever the call gave: no user, no stored
\* user; then Layout.handleLogout pushes /login
AuthProvider_logoutSettled ==
    /\ auth.logout \in {"resolved", "rejected"}
    /\ \E a \in {[auth EXCEPT !.logout = "idle", !.user = 0, !.stored = 0,
                               !.loggedOut = TRUE]} :
         /\ auth' = a
         /\ route' = [ProtectedRoute(auth, a, route, FALSE)
                        EXCEPT !.pushed = @ \cup {LoginPath}]
    /\ UNCHANGED <<engineVars, formVars, pageVars, server, api, holdingsForm>>

\* LoginPage.handleSubmit calls login() with valid (1) or invalid (0)
\* credentials; the backend answers, or the request fails
AuthProvider_login ==
    /\ auth.me # "idle"
    /\ auth.login = "idle"
    /\ IsLoginPage(route.path)
    /\ \E credentials \in {0, 1} :
         LET served == handle([op |-> "auth.login", arg |-> credentials], server)
         IN \/ /\ server' = served.server
               /\ auth' = [auth EXCEPT !.login = apiRequest(served.response).kind]
            \/ /\ auth' = [auth EXCEPT !.login = "rejected"]
               /\ UNCHANGED server
    /\ UNCHANGED <<engineVars, formVars, pageVars, api, holdingsForm, route>>

\* the continuation of await api.auth.login(): the user is set and stored
\* and the login page pushes returnUrl or /input; a failure is thrown on
\* and the login page shows it
AuthProvider_loginSettled ==
    /\ auth.login \in {"resolved", "rejected"}
    /\ IF auth.login = "resolved"
       THEN \E a \in {[auth EXCEPT !.login = "idle", !.user = ServerUser,
                                    !.stored = ServerUser, !.loggedOut = FALSE]} :
            \E returnUrl \in {Router_query_returnUrl(route.path)} :
              /\ auth' = a
              /\ route' = [ProtectedRoute(auth, a, route, FALSE)
                             EXCEPT !.pushed = @ \cup
                                 {IF returnUrl # <<>> THEN returnUrl
                                  ELSE <<"/", "input">>}]
       ELSE /\ auth' = [auth EXCEPT !.login = "idle"]
            /\ UNCHANGED route
    /\ UNCHANGED <<engineVars, formVars, pageVars, server, api, holdingsForm>>

\* a route change completes: the page of a pushed URL is mounted
Router_routeChangeComplete ==
    /\ \E url \in route.pushed :
         route' = ProtectedRoute(auth, auth, Router_initial(url), TRUE)
    /\ UNCHANGED <<engineVars, formVars, pageVars, server, api, holdingsForm, auth>>

\* the user follows a link of Layout or goes back in the history to a page
\* wrapped by withAuth
Router_open ==
    /\ auth.me # "idle"
    /\ route.pushed = {}
    /\ \E path \in ProtectedPaths \ {route.path} :
         route' = ProtectedRoute(auth, auth, Router_initial(path), TRUE)
    /\ UNCHANGED <<engineVars, formVars, pageVars, server, api, holdingsForm, auth>>

\* the session of the backend ends (it expires, or is ended elsewhere)
Backend_sessionEnds ==
    /\ server.session
    /\ server' = [server EXCEPT !.session = FALSE]
    /\ UNCHANGED <<engineVars, formVars, pageVars, api, holdingsForm, auth, route>>

InitAuth ==
    /\ InitIdle
    /\ \E session \in BOOLEAN : server = [session |-> session, holdings |-> {1}]
    /\ api = [called |-> FALSE]
    /\ holdingsForm = HoldingsForm_initial(FALSE)
    /\ \E stored \in {-1, 0, 1, 2} : auth = AuthProvider_initial(stored)
    /\ \E path \in ProtectedPaths : route = Router_initial(path)
    /\ plansPage = PlansPage_initial
    /\ planRows = 0

NextAuth ==
    \/ AuthProvider_useEffect
    \/ Backend_me
    \/ AuthProvider_meSettled
    \/ AuthProvider_logout
    \/ Backend_logout
    \/ AuthProvider_logoutSettled
    \/ AuthProvider_login
    \/ AuthProvider_loginSettled
    \/ Router_routeChangeComplete
    \/ Router_open
    \/ Backend_sessionEnds

SpecAuth == InitAuth /\ [][NextAuth]_vars

----------------------------------------------------------------------------
(* PlansPage: the list of plans, page by page *)

\* api.recurringPlans.list(page, 10)
PageSize == 10

\* the most plans the backend stores
MaxPlanRows == 21

\* Math.ceil(count / 10)
ceilPages(count) == (count + PageSize - 1) \div PageSize

\* the pages the backend's paginator knows for count rows: the first page
\* exists also when there is no row
PageExists(page, count) ==
    page >= 1 /\ page <= (IF ceilPages(count) > 1 THEN ceilPages(count) ELSE 1)

\* response.results.length of a page that exists
resultsOn(page, count) ==
    IF count - PageSize * (page - 1) > PageSize THEN PageSize
    ELSE count - PageSize * (page - 1)

\* GET recurring-plans/?page=&page_size=10 as the backend answers it: a
\* page that does not exist is not found
Backend_listPlans(page, count) ==
    IF PageExists(page, count)
    THEN Response(200, "application/json", "data")
    ELSE Response(404, "application/json", "detail")

\* loadPlans(page), called after a first load, a page button, a delete or a
\* save: the state it leaves
loadPlans(st, page, count, after) ==
    LET answer == apiRequest(Backend_listPlans(page, count))
    IN IF answer.kind = "resolved"
       THEN [st EXCEPT !.plans = resultsOn(page, count),
                       !.currentPage = page,
                       !.totalPages = ceilPages(count),
                       !.error = "none",
                       !.reload = [after |-> after, page |-> page]]
       ELSE [st EXCEPT !.plans = 0,
                       !.error = answer.message,
                       !.reload = [after |-> after, page |-> page]]

\* the first load of the page
PlansPage_useEffect ==
    /\ plansPage.reload.after = "none"
    /\ plansPage' = loadPlans(plansPage, 1, planRows, "load")
    /\ UNCHANGED <<engineVars, formVars, server, api, holdingsForm, auth,
                   route, planRows>>

\* the buttons of the pagination, shown with a list of more than one page
PlansPage_pagination ==
    /\ plansPage.reload.after # "none"
    /\ plansPage.plans > 0
    /\ plansPage.totalPages > 1
    /\ \/ /\ plansPage.currentPage # 1
          /\ plansPage' = loadPlans(plansPage, plansPage.currentPage - 1,
                                    planRows, "load")
       \/ /\ plansPage.currentPage # plansPage.totalPages
          /\ plansPage' = loadPlans(plansPage, plansPage.currentPage + 1,
                                    planRows, "load")
    /\ UNCHANGED <<engineVars, formVars, server, api, holdingsForm, auth,
                   route, planRows>>

\* handleDeleteClick on a plan of the list: not confirmed, deleted and the
\* current page reloaded, or the delete call fails
PlansPage_handleDeleteClick ==
    /\ plansPage.reload.after # "none"
    /\ plansPage.plans > 0
    /\ planRows > 0
    /\ \/ UNCHANGED <<plansPage, planRows>>
       \/ /\ planRows' = planRows - 1
          /\ plansPage' = loadPlans(plansPage, plansPage.currentPage,
                                    planRows', "delete")
       \/ /\ plansPage' = [plansPage EXCEPT
                               !.error = "HTTP status: statusText",
                               !.reload = [after |-> "failed", page |-> @.page]]
          /\ UNCHANGED planRows
    /\ UNCHANGED <<engineVars, formVars, server, api, holdingsForm, auth, route>>

\* handleFormSubmit for a new plan: created and the current page reloaded,
\* or the call fails and the error is thrown on to the form
PlansPage_handleFormSubmit ==
    /\ plansPage.reload.after # "none"
    /\ planRows < MaxPlanRows
    /\ \/ /\ planRows' = planRows + 1
          /\ plansPage' = loadPlans(plansPage, plansPage.currentPage,
                                    planRows', "save")
       \/ /\ plansPage' = [plansPage EXCEPT
                               !.reload = [after |-> "failed", page |-> @.page]]
          /\ UNCHANGED planRows
    /\ UNCHANGED <<engineVars, formVars, server, api, holdingsForm, auth, route>>

InitPlansPage ==
    /\ InitIdle
    /\ server = [session |-> TRUE, holdings |-> {1}]
    /\ api = [called |-> FALSE]
    /\ holdingsForm = HoldingsForm_initial(FALSE)
    /\ auth = AuthProvider_initial(0)
    /\ route = Router_initial(<<"/", "plans">>)
    /\ plansPage = PlansPage_initial
    /\ planRows \in 0..MaxPlanRows

NextPlansPage ==
    \/ PlansPage_useEffect
    \/ PlansPage_pagination
    \/ PlansPage_handleDeleteClick
    \/ PlansPage_handleFormSubmit

SpecPlansPage == InitPlansPage /\ [][NextPlansPage]_vars

NextApi == ApiCall

SpecApi == InitApi /\ [][NextApi]_vars

----------------------------------------------------------------------------
(* Properties of the allocation *)

\* the allocate calls and the year records of all runs, as (run, index) pairs
Emitted == {p \in Runs \X (1..MaxYears + 1) : p[2] <= Len(records[p[1]])}

CallOf(p) == calls[p[1]][p[2]]

RecordOf(p) == records[p[1]][p[2]]

C3_Ordering ==
    \A p \in Emitted :
      LET c == CallOf(p)
          wantA == Min2(c.proposed.tsumitate, c.out.effectiveCaps.tsumitate)
      IN /\ wantA <= c.out.effectiveCaps.total => c.out.typeA = wantA
         /\ c.out.typeB <= c.out.effectiveCaps.total - c.out.typeA
         /\ c.out.typeB = Min3(c.proposed.growth, c.out.effectiveCaps.growth,
                               c.out.effectiveCaps.total - c.out.typeA)

\* contention: both buckets ask for more than the shared budget holds;
\* tsumitate is served in full measure and growth is cut by the rest
C3_Witness ==
    \E p \in Emitted :
      LET c == CallOf(p)
      IN /\ c.proposed.tsumitate + c.proposed.growth > c.out.effectiveCaps.total
         /\ c.out.typeA > 0
         /\ c.out.typeA = Min2(c.proposed.tsumitate, c.out.effectiveCaps.tsumitate)
         /\ c.out.typeB > 0
         /\ c.out.typeB = c.out.effectiveCaps.total - c.out.typeA
         /\ c.out.typeB < Min2(c.proposed.growth, c.out.effectiveCaps.growth)

\* C4 (effective annual cap): the effective annual cap of a bucket is
\* min(static annual cap, remaining lifetime room of the bucket, remaining
\* lifetime total room), computed from the ledger as it is on entering the
\* year; when growth's lifetime usage equals its lifetime limit on entering
\* a year, growth's effective annual cap and credit for that year are 0.
C4_EffectiveCap ==
    \A p \in Emitted :
      LET c == CallOf(p)
          remTotal == LIFETIME_LIMIT.total - (c.before.tsumitate + c.before.growth)
          remGrowth == LIFETIME_LIMIT.growth - c.before.growth
      IN /\ c.out.effectiveCaps.tsumitate = Min2(ANNUAL_CAP.tsumitate, remTotal)
         /\ c.out.effectiveCaps.growth = Min3(ANNUAL_CAP.growth, remGrowth, remTotal)
         /\ c.before.growth = LIFETIME_LIMIT.growth
              => c.out.effectiveCaps.growth = 0 /\ c.out.typeB = 0

\* C5 (overflow accounting): in every allocate call each bucket's credit
\* lies between 0 and the proposed amount, and the overflow is the sum of
\* the two shortfalls, so credits plus overflow equal the proposed total.
C5_OverflowAccounting ==
    \A p \in Emitted :
      LET c == CallOf(p)
      IN /\ c.proposed.tsumitate >= 0 /\ c.proposed.growth >= 0
         /\ 0 <= c.out.typeA /\ c.out.typeA <= c.proposed.tsumitate
         /\ 0 <= c.out.typeB /\ c.out.typeB <= c.proposed.growth
         /\ c.out.overflow = (c.proposed.tsumitate - c.out.typeA)
                             + (c.proposed.growth - c.out.typeB)
         /\ c.out.typeA + c.out.typeB + c.out.overflow
              = c.proposed.tsumitate + c.proposed.growth

----------------------------------------------------------------------------
(* Properties of the year loop *)

\* lifetime usage reported for the year before p (the past usage for year 1)
UsageBefore(p) ==
    IF p[2] = 1 THEN snap[p[1]].prior
    ELSE LET u == records[p[1]][p[2] - 1].nisa_usage
         IN [tsumitate |-> u.lifetime_tsumitate.used, growth |-> u.lifetime_growth.used]

\* C6 (ledger accumulation): the lifetime usage of a bucket reported for
\* year y is the one reported for year y-1 (the past usage for y = 1) plus
\* the credit of year y, it never decreases from one year to the next, and
\* the ledger holds the usage reported for the last year projected.
C6_LedgerAccumulation ==
    /\ \A p \in Emitted :
         LET u == RecordOf(p).nisa_usage
             b == UsageBefore(p)
         IN /\ u.lifetime_tsumitate.used = b.tsumitate + u.tsumitate.used
            /\ u.lifetime_growth.used = b.growth + u.growth.used
            /\ u.lifetime_tsumitate.used >= b.tsumitate
            /\ u.lifetime_growth.used >= b.growth
    /\ \A r \in Runs :
         pc[r] \in {"running", "done"} =>
           /\ Len(records[r]) = year[r]
           /\ ledger[r] = IF year[r] = 0 THEN snap[r].prior
                          ELSE UsageBefore(<<r, year[r] + 1>>)

C9_ZeroPlans ==
    \A r \in Runs :
      (pc[r] = "done" /\ snap[r].plans = {}) =>
        /\ \A k \in DOMAIN records[r] : records[r][k].contributions = 0
        /\ ledger[r] = snap[r].prior
        /\ result[r].total_accumulated_contributions_jpy = 0
        /\ result[r].projected_total_value_jpy
             = snap[r].startingBalance * Pow(GrowthNum(snap[r].rate), snap[r].years)

\* the year records a run of inputs in emits when nothing else runs
recordsAlone(in) ==
    LET led[y \in 0..in.years] ==
            IF y = 0 THEN in.prior
            ELSE yearContribution(in.plans, led[y - 1], y).ledger
        rec[y \in 1..in.years] ==
            yearRecord(in,
                       IF y = 1 THEN in.startingBalance * Scale(in.rate, in.years)
                       ELSE rec[y - 1].ending_balance,
                       y, yearContribution(in.plans, led[y - 1], y))
    IN [y \in 1..in.years |-> rec[y]]

Ended(r) == pc[r] \in {"done", "rejected"}

----------------------------------------------------------------------------
(* Properties of the run as a whole *)

\* C11 (loop completion): a run whose inputs have validated never ends in an
\* error, emits one year record per iteration with the year indices 1, 2,
\* ... in increasing order, and always reaches the end, where it holds
\* exactly projection_years records; this includes runs with zero
\* contributions, with a rate of -100 and with lifetime caps used up.
C11_LoopCompletion ==
    /\ [](\A r \in Runs :
            pc[r] \in {"running", "done"} =>
              /\ Len(records[r]) = year[r]
              /\ Len(calls[r]) = year[r]
              /\ year[r] <= snap[r].years
              /\ \A k \in DOMAIN records[r] : records[r][k].year = k
              /\ pc[r] = "running" => result[r] = NoResult
              /\ pc[r] = "done" => /\ Len(records[r]) = snap[r].years
                                   /\ result[r].status = "ok")
    /\ [][\A r \in Runs : pc[r] = "running" => pc'[r] \in {"running", "done"}]_vars
    /\ \A r \in Runs : (pc[r] = "running") ~> (pc[r] = "done")

\* a run of MaxYears years at a rate of -100 that found the lifetime room of
\* growth and of the total used up, had no contributions in its first year
\* and some in its last, and is done
C11_Witness ==
    /\ pc[1] = "done"
    /\ snap[1].years = MaxYears
    /\ snap[1].rate = -100
    /\ snap[1].prior = [tsumitate |-> 600, growth |-> 1200]
    /\ calls[1][1].out.effectiveCaps.growth = 0
    /\ calls[1][1].out.effectiveCaps.total = 0
    /\ records[1][1].contributions = 0
    /\ records[1][MaxYears].year = MaxYears
    /\ records[1][MaxYears].contributions > 0

\* a request whose years are outside 1..50 or whose rate is outside -100..100
OutOfRange(req) ==
    \/ req.projection_years < 1 \/ req.projection_years > 50
    \/ req.annual_return_rate < -100 \/ req.annual_return_rate > 100

\* C12 (projection parameter validation): for a request with years outside
\* 1..50 or a rate outside -100..100 ProjectionForm never calls onSubmit, and
\* a run given such a request is rejected with an input validation error
\* without any year record, allocation or partial result; a request with
\* both values in range is never rejected as invalid and reaches onSubmit
\* and the run with the values as they were entered.
C12_ParameterValidation ==
    /\ OutOfRange(request) =>
         /\ submitted.ProjectionForm = NoSubmission
         /\ \A r \in Runs :
              /\ pc[r] \in {"idle", "rejected"}
              /\ records[r] = <<>> /\ calls[r] = <<>> /\ year[r] = 0
              /\ pc[r] = "rejected" =>
                   /\ result[r].status = "InputValidationError"
                   /\ DOMAIN result[r] = {"status", "fields"}
    /\ ~OutOfRange(request) =>
         /\ errors.ProjectionForm = {}
         /\ submitted.ProjectionForm # NoSubmission =>
              /\ submitted.ProjectionForm.projection_years = request.projection_years
              /\ submitted.ProjectionForm.annual_return_rate = request.annual_return_rate
         /\ \A r \in Runs :
              pc[r] # "idle" =>
                /\ result[r].status # "InputValidationError"
                /\ snap[r].years = request.projection_years
                /\ snap[r].rate = request.annual_return_rate

\* a request of 51 years at a rate in range: the form shows the error on
\* the years field and has called nothing, and the run was rejected
C12_Witness ==
    /\ request.projection_years = 51
    /\ request.annual_return_rate = 100
    /\ errors.ProjectionForm = {"projectionYears"}
    /\ submitted.ProjectionForm = NoSubmission
    /\ pc[1] = "rejected"
    /\ result[1].status = "InputValidationError"

----------------------------------------------------------------------------
(* Properties of the forms *)

\* the calendar day a date text names, as year * 10000 + month * 100 + day
dayOf(text) ==
    LET n == Len(text)
    IN DigitsValue(SubSeq(text, 1, n - 6)) * 10000
       + (text[n - 4] * 10 + text[n - 3]) * 100
       + (text[n - 1] * 10 + text[n])

\* a token that is a month number 1..12 and nothing else
IsMonthNumber(token) ==
    /\ token.digits # <<>>
    /\ ~token.rest
    /\ DigitsValue(token.digits) \in 1..12

\* the rules of a plan that formData breaks, by the field they are about
BrokenRules(fd) ==
    (IF ~isNaN(fd.amount_jpy) /\ fd.amount_jpy <= 0 THEN {"amount_jpy"} ELSE {})
    \cup
    (IF fd.start_date = <<>> THEN {"start_date"} ELSE {})
    \cup
    (IF fd.end_date # <<>> /\ fd.start_date # <<>>
        /\ dayOf(fd.end_date) < dayOf(fd.start_date)
     THEN {"end_date"} ELSE {})
    \cup
    (IF /\ fd.frequency = "BONUS_MONTH"
        /\ \/ fd.bonus_months = <<>>
           \/ \E k \in DOMAIN fd.bonus_months : ~IsMonthNumber(fd.bonus_months[k])
     THEN {"bonus_months"} ELSE {})

\* C13 (plan validation): PlansForm passes no plan to onSubmit whose amount
\* is <= 0, whose start date is empty, whose end date is present and earlier
\* than its start date, or whose frequency is BONUS_MONTH with an empty
\* bonus-month list or an entry that is not a month number 1..12; once the
\* form was submitted with such a plan, each broken rule has an error on
\* its field.
C13_PlanValidation ==
    BrokenRules(formData) # {} =>
      /\ submitted.PlansForm = NoSubmission
      /\ errors.PlansForm # {} => BrokenRules(formData) \subseteq errors.PlansForm

----------------------------------------------------------------------------
(* Properties of the contributions *)

\* the annual contribution the rules give for plan i: amount * 12 for a
\* monthly plan, amount * the number of months listed for a bonus plan, and
\* amount * 365 or 245 days for a daily plan of a cryptocurrency or of
\* another asset
RuleAmount(i) ==
    LET plan == PlanCatalogue[i]
        listed == SelectSeq(plan.bonus_months, LAMBDA m : m # 0)
        crypto == "CRYPTOCURRENCY" \in {plan.target_asset_class, plan.target_asset_region}
    IN IF plan.frequency = "MONTHLY" THEN plan.amount_jpy * 12
       ELSE IF plan.frequency = "BONUS_MONTH" THEN plan.amount_jpy * Len(listed)
       ELSE IF crypto THEN plan.amount_jpy * 365
       ELSE plan.amount_jpy * 245

\* the sum of the rule amounts of the plans in S
RuleSum(S) ==
    LET t[k \in 0..6] ==
          IF k = 0 THEN 0 ELSE t[k - 1] + (IF k \in S THEN RuleAmount(k) ELSE 0)
    IN t[6]

\* the plans of run r that target acct and are active in year y
ActiveFor(r, y, acct) ==
    {i \in snap[r].plans :
       /\ PlanCatalogue[i].target_account_type = acct
       /\ PlanCatalogue[i].start_year <= y
       /\ PlanCatalogue[i].end_year \in {0} \cup (y..(MaxYears + 1))}

CappedPlans(r) ==
    {i \in snap[r].plans : PlanCatalogue[i].target_account_type # "GENERAL"}

\* C15 (unrestricted bucket): in every year the plans targeting GENERAL add
\* their full annual amount to the year's contributions, on top of what the
\* year would contribute without them and whatever the caps are, and the
\* allocation, the annual usage and the lifetime usage of tsumitate and
\* growth are what they would be without these plans.
C15_UnrestrictedBucket ==
    \A p \in Emitted :
      LET c == CallOf(p)
          rec == RecordOf(p)
          without == yearContribution(CappedPlans(p[1]), c.before, c.year)
      IN /\ c.unrestricted = RuleSum(ActiveFor(p[1], c.year, "GENERAL"))
         /\ rec.contributions = c.unrestricted + without.contributions
         /\ c.out = without.alloc
         /\ rec.nisa_usage = nisaUsage(without.alloc, without.ledger)
         /\ rec.nisa_usage.lifetime_tsumitate.used = c.before.tsumitate + c.out.typeA
         /\ rec.nisa_usage.lifetime_growth.used = c.before.growth + c.out.typeB

\* a year entered with the lifetime room used up, in which the daily plan
\* on the unrestricted account adds its 365 days to the contributions next
\* to the overflow of a growth plan, and the lifetime usage stays as it was
C15_Witness ==
    \E p \in Emitted :
      /\ snap[p[1]].plans = {3, 5}
      /\ CallOf(p).out.effectiveCaps.total = 0
      /\ CallOf(p).unrestricted = 365
      /\ RecordOf(p).contributions = 365 + CallOf(p).proposed.growth
      /\ CallOf(p).proposed.growth > 0
      /\ RecordOf(p).nisa_usage.lifetime_total.used = LIFETIME_LIMIT.total
      /\ RecordOf(p).nisa_usage.total.used = 0

\* the account type of a capped bucket
AccountOf(b) == IF b = "tsumitate" THEN "NISA_TSUMITATE" ELSE "NISA_GROWTH"

\* what allocate credited to bucket b
CreditOf(c, b) == IF b = "tsumitate" THEN c.out.typeA ELSE c.out.typeB

\* C16 (continue-past-cap): in a year in which a plan that continues past
\* the cap contributes to a capped bucket and the amount proposed for the
\* bucket exceeds its credit, the year's contributions are the full proposed
\* amounts of the year, and the bucket's annual and lifetime usage hold the
\* credit only, within the bucket's effective and static annual cap.
C16_ContinuePastCap ==
    \A p \in Emitted : \A b \in {"tsumitate", "growth"} :
      LET c == CallOf(p)
          rec == RecordOf(p)
      IN (/\ \E i \in ActiveFor(p[1], c.year, AccountOf(b)) :
                PlanCatalogue[i].continue_if_limit_exceeded
          /\ c.proposed[b] > CreditOf(c, b))
         => /\ rec.contributions
                 = c.unrestricted + c.proposed.tsumitate + c.proposed.growth
            /\ rec.nisa_usage[b].used = CreditOf(c, b)
            /\ rec.nisa_usage[b].used <= c.out.effectiveCaps[b]
            /\ rec.nisa_usage[b].used <= ANNUAL_CAP[b]
            /\ (IF b = "tsumitate" THEN rec.nisa_usage.lifetime_tsumitate.used
                                   ELSE rec.nisa_usage.lifetime_growth.used)
                 = c.before[b] + CreditOf(c, b)

\* the allocations of the years 1..years of a run of inputs in, each on the
\* ledger the years before it leave
allocationsAlone(in) ==
    LET led[y \in 0..in.years] ==
            IF y = 0 THEN in.prior
            ELSE credit(led[y - 1], allocate(led[y - 1], annualPlan(in.plans, y)))
    IN [y \in 1..in.years |->
          [proposed |-> annualPlan(in.plans, y),
           out |-> allocate(led[y - 1], annualPlan(in.plans, y))]]

\* the plans of inputs in that contribute to bucket b in year y
Contributing(in, y, b) ==
    {i \in in.plans : /\ PlanCatalogue[i].target_account_type = AccountOf(b)
                      /\ PlanCatalogue[i].start_year <= y
                      /\ PlanCatalogue[i].end_year \in {0} \cup (y..(MaxYears + 1))}

\* the (year, bucket) pairs of a run of inputs in whose allocation overflows
\* the bucket
Overflowing(in) ==
    {yb \in (1..in.years) \X {"tsumitate", "growth"} :
       allocationsAlone(in)[yb[1]].proposed[yb[2]] > CreditOf(allocationsAlone(in)[yb[1]], yb[2])}

\* overflowing pairs with a contributing plan that does not continue past
\* the cap
OffendingSome(in) ==
    {yb \in Overflowing(in) :
       \E i \in Contributing(in, yb[1], yb[2]) :
         ~PlanCatalogue[i].continue_if_limit_exceeded}

\* overflowing pairs with contributing plans none of which continues past
\* the cap
OffendingAll(in) ==
    {yb \in Overflowing(in) :
       /\ Contributing(in, yb[1], yb[2]) # {}
       /\ \A i \in Contributing(in, yb[1], yb[2]) :
            ~PlanCatalogue[i].continue_if_limit_exceeded}

\* a run that read a valid request and has started
Validated(r) ==
    /\ pc[r] # "idle"
    /\ snap[r].years \in 1..50
    /\ snap[r].rate \in (-100)..100

\* the outcome of run r is a cap violation error naming the first year of
\* the offending pairs and a bucket offending in that year, without any
\* year record
CapViolationOutcome(r, offending) ==
    /\ pc[r] = "rejected"
    /\ result[r].status = "CapViolationError"
    /\ result[r].status # "InputValidationError"
    /\ <<result[r].year, result[r].bucket>> \in offending
    /\ \A yb \in offending : result[r].year <= yb[1]
    /\ records[r] = <<>>

Inactive(r, y) ==
    {i \in snap[r].plans :
       \/ y < PlanCatalogue[i].start_year
       \/ PlanCatalogue[i].end_year # 0 /\ PlanCatalogue[i].end_year < y}

\* C18 (plan activity): the plans outside their active range contribute
\* nothing to a year: proposed amounts, allocation, contributions and usage
\* of the year are those of the plan list without them.  In a year after
\* the end of every plan of a bucket the bucket's annual usage is 0 and its
\* lifetime usage is still reported, at the value of the year before.
C18_PlanActivity ==
    \A p \in Emitted :
      LET c == CallOf(p)
          rec == RecordOf(p)
          r == p[1]
          active == snap[r].plans \ Inactive(r, c.year)
          without == yearContribution(active, c.before, c.year)
      IN /\ c.proposed.tsumitate = RuleSum({i \in active :
                PlanCatalogue[i].target_account_type = "NISA_TSUMITATE"})
         /\ c.proposed.growth = RuleSum({i \in active :
                PlanCatalogue[i].target_account_type = "NISA_GROWTH"})
         /\ c.unrestricted = RuleSum({i \in active :
                PlanCatalogue[i].target_account_type = "GENERAL"})
         /\ c.out = without.alloc
         /\ rec.contributions = without.contributions
         /\ \A b \in {"tsumitate", "growth"} :
              (/\ \E i \in Inactive(r, c.year) :
                    /\ PlanCatalogue[i].target_account_type = AccountOf(b)
                    /\ PlanCatalogue[i].end_year # 0
                    /\ PlanCatalogue[i].end_year < c.year
               /\ \A i \in active : PlanCatalogue[i].target_account_type # AccountOf(b))
              => /\ rec.nisa_usage[b].used = 0
                 /\ UsageBefore(p)[b] = c.before[b]
                 /\ (IF b = "tsumitate" THEN rec.nisa_usage.lifetime_tsumitate.used
                                        ELSE rec.nisa_usage.lifetime_growth.used)
                      = UsageBefore(p)[b]

\* the year after the end of the bonus plan: growth uses nothing in the
\* year and its lifetime usage stands at what the two years before added,
\* while the plan that starts in year 2 contributed nothing in year 1
C18_Witness ==
    \E p \in Emitted :
      /\ snap[p[1]].plans = {4, 5}
      /\ CallOf(p).year = 3
      /\ RecordOf(p).nisa_usage.growth.used = 0
      /\ RecordOf(p).nisa_usage.lifetime_growth.used = snap[p[1]].prior.growth + 80
      /\ records[p[1]][1].contributions = 40
      /\ RecordOf(p).contributions = 365

----------------------------------------------------------------------------
(* Properties of the result *)

\* the sum of field f over the year records of run r
RecordSum(r, f) ==
    LET t[k \in 0..Len(records[r])] ==
          IF k = 0 THEN 0 ELSE t[k - 1] + records[r][k][f]
    IN t[Len(records[r])]

\* C19 (result aggregates): in the result of a finished run the total
\* accumulated contributions are the sum of the year records'
\* contributions, the total interest gains are the sum of the year records'
\* interest earned, the projected total value is the ending balance of the
\* last year record, and the projected total value is the starting balance
\* plus the total contributions plus the total interest gains.
C19_ResultAggregates ==
    \A r \in Runs :
      pc[r] = "done" =>
        LET res == result[r]
            scale == Scale(snap[r].rate, snap[r].years)
        IN /\ res.total_accumulated_contributions_jpy = RecordSum(r, "contributions")
           /\ res.total_interest_gains_jpy = RecordSum(r, "interest_earned")
           /\ res.projected_total_value_jpy
                = records[r][Len(records[r])].ending_balance
           /\ res.starting_balance_jpy = records[r][1].starting_balance
           /\ res.projected_total_value_jpy
                = res.starting_balance_jpy
                  + res.total_accumulated_contributions_jpy * scale
                  + res.total_interest_gains_jpy

\* a finished run of MaxYears years at 5 percent with a starting balance
\* and contributions in more than one year
C19_Witness ==
    /\ pc[1] = "done"
    /\ snap[1].years = MaxYears
    /\ snap[1].rate = 5
    /\ snap[1].startingBalance > 0
    /\ records[1][1].contributions > 0
    /\ records[1][2].contributions > records[1][1].contributions
    /\ result[1].total_interest_gains_jpy > records[1][1].interest_earned

\* the entries of a usage snapshot
UsageEntries ==
    {"tsumitate", "growth", "total",
     "lifetime_tsumitate", "lifetime_growth", "lifetime_total"}

\* C20 (usage snapshot consistency): in the usage snapshot of every year
\* record each entry that has a limit has remaining = limit - used, the
\* annual total used is tsumitate used plus growth used, the lifetime total
\* used is lifetime tsumitate used plus lifetime growth used, and the
\* snapshot is the ledger after the year's allocation: the annual entries
\* hold the year's credits and the lifetime entries the usage before the
\* year plus these credits, which is the ledger's state while the record is
\* the last one emitted.
C20_UsageSnapshot ==
    \A p \in Emitted :
      LET u == RecordOf(p).nisa_usage
          c == CallOf(p)
      IN /\ DOMAIN u = UsageEntries
         /\ \A e \in UsageEntries :
              "limit" \in DOMAIN u[e] => u[e].remaining = u[e].limit - u[e].used
         /\ {e \in UsageEntries : "limit" \in DOMAIN u[e]}
              = UsageEntries \ {"lifetime_tsumitate"}
         /\ u.total.used = u.tsumitate.used + u.growth.used
         /\ u.lifetime_total.used = u.lifetime_tsumitate.used + u.lifetime_growth.used
         /\ u.tsumitate.used = c.out.typeA
         /\ u.growth.used = c.out.typeB
         /\ u.lifetime_tsumitate.used = c.before.tsumitate + c.out.typeA
         /\ u.lifetime_growth.used = c.before.growth + c.out.typeB
         /\ p[2] = year[p[1]] =>
              /\ u.lifetime_tsumitate.used = ledger[p[1]].tsumitate
              /\ u.lifetime_growth.used = ledger[p[1]].growth

\* a second year that credits both buckets and leaves room in growth: the
\* lifetime entries differ from the annual ones
C20_Witness ==
    \E p \in Emitted :
      LET u == RecordOf(p).nisa_usage
      IN /\ p[2] = 2
         /\ u.tsumitate.used > 0
         /\ u.growth.used > 0 /\ u.growth.remaining > 0
         /\ u.total.remaining = u.growth.remaining + u.tsumitate.remaining
         /\ u.lifetime_growth.used > u.growth.used
         /\ u.lifetime_total.remaining > 0
         /\ u.lifetime_total.used = u.total.used + records[p[1]][1].nisa_usage.lifetime_total.used

----------------------------------------------------------------------------
(* Composition projection *)

\* the projected composition of a finished run
ProjectedOf(r) == result[r].projected_composition_by_region

\* a common divisor that keeps the products below small
Common(a, b) == IF b > 0 THEN GCD(a, b) ELSE IF a > 0 THEN a ELSE 1

\* fraction p is amount * final / starting (final and p over the same unit)
IsScaled(p, amount, startingBalance, final) ==
    LET g == Common(amount, startingBalance)
    IN p.num * (startingBalance \div g) = (amount \div g) * final * p.den

\* the projected amounts p, q are in the ratio of the input amounts a, b
SameRatio(p, q, a, b) ==
    LET g == Common(a, b)
    IN p.num * q.den * (b \div g) = q.num * p.den * (a \div g)

\* every input region is in the output, scaled by final / starting, and any
\* two regions keep the ratio of their input amounts
CompositionScaled(r) ==
    LET in == snap[r].composition
        out == ProjectedOf(r)
    IN /\ DOMAIN out = DOMAIN in
       /\ \A g \in DOMAIN in :
             IsScaled(out[g], in[g], snap[r].startingBalance, balance[r])
       /\ \A g, h \in DOMAIN in : SameRatio(out[g], out[h], in[g], in[h])

----------------------------------------------------------------------------
(* API client errors *)

\* C22: every API client call whose response is not OK rejects with an
\* error whose status is the HTTP status of the response and never resolves
\* with data (401 for a login with invalid credentials, 404 for a holding
\* that does not exist or was deleted); a 204 or a success that is not JSON
\* resolves with undefined
C22_ApiClientErrors ==
    api.called =>
        LET response == api.response
            outcome == api.outcome
        IN /\ ~ok(response) =>
                /\ outcome.kind = "rejected"
                /\ outcome.status = response.status
           /\ outcome.kind = "resolved" => ok(response)
           /\ (api.byBackend /\ api.call = [op |-> "auth.login", arg |-> 0]) =>
                outcome.kind = "rejected" /\ outcome.status = 401
           /\ (/\ api.byBackend
               /\ api.call.op = "holdings.get"
               /\ api.before.session
               /\ api.call.arg \notin api.before.holdings) =>
                outcome.kind = "rejected" /\ outcome.status = 404
           /\ (ok(response) /\ (\/ response.status = 204
                                 \/ response.contentType # "application/json")) =>
                outcome = resolved("undefined")

\* holding 1, stored at first, was deleted, and getting it is rejected with
\* status 404
C22_Witness ==
    /\ api.called
    /\ api.call = [op |-> "holdings.get", arg |-> 1]
    /\ api.byBackend
    /\ 1 \notin server.holdings
    /\ api.outcome.kind = "rejected"
    /\ api.outcome.status = 404

----------------------------------------------------------------------------
(* HoldingsForm *)

\* a text without any character other than blanks
IsBlank(text) == \A k \in DOMAIN text : text[k] = " "

\* a step that is a submit of the form
IsSubmit == holdingsForm'.submits = holdingsForm.submits + 1

\* the field errors a submit of these fields has to show
FieldErrors(fd) ==
    {f \in {"asset_identifier", "asset_name"} : IsBlank(fd[f])}
    \cup {f \in {"current_amount_jpy"} : fd[f] < 0}

\* a submit that fails validation shows the field errors and calls nothing;
\* one that passes issues the call with the fields
SubmitGate ==
    IsSubmit =>
        LET fd == holdingsForm.formData
        IN /\ FieldErrors(fd) \subseteq holdingsForm'.errors
           /\ IF FieldErrors(fd) # {}
              THEN holdingsForm'.inFlight = <<>> /\ api' = api
              ELSE /\ holdingsForm'.inFlight # <<>>
                   /\ holdingsForm'.inFlight[1].arg = fd

\* C23: HoldingsForm calls the create/update API only after validation has
\* passed: a submit with a blank asset identifier, a blank asset name or a
\* negative amount shows the error of the field and issues no API call,
\* whatever was edited before, and the fields of a call in flight are valid
C23_ValidationGate ==
    /\ [](holdingsForm.inFlight # <<>> =>
            FieldErrors(holdingsForm.inFlight[1].arg) = {})
    /\ [][SubmitGate]_vars

\* a negative amount was typed next to a valid identifier and name, and the
\* submit showed the error of the amount and called nothing
C23_Witness ==
    /\ holdingsForm.submits = 1
    /\ holdingsForm.formData.current_amount_jpy = -1000
    /\ ~IsBlank(holdingsForm.formData.asset_identifier)
    /\ ~IsBlank(holdingsForm.formData.asset_name)
    /\ holdingsForm.errors = {"current_amount_jpy"}
    /\ holdingsForm.inFlight = <<>>
    /\ ~api.called

\* a step in which the call in flight rejects
IsRejection ==
    /\ holdingsForm.inFlight # <<>>
    /\ holdingsForm'.inFlight = <<>>
    /\ api'.outcome.kind = "rejected"

\* C24: when the create/update call rejects, onError is called with the
\* message of the error and onSuccess is not, the fields keep their values,
\* and loading is false again; loading is true exactly while a submission is
\* in flight
C24_FailurePath ==
    /\ [](holdingsForm.loading <=> holdingsForm.inFlight # <<>>)
    /\ [][IsRejection =>
            /\ holdingsForm'.callback =
                    [name |-> "onError", arg |-> api'.outcome.message]
            /\ holdingsForm'.formData = holdingsForm.formData
            /\ holdingsForm'.amountDisplay = holdingsForm.amountDisplay
            /\ ~holdingsForm'.loading]_vars

\* a creation was rejected, onError got the message, and the same fields
\* were submitted again and are in flight
C24_Witness ==
    /\ ~holdingsForm.isEditing
    /\ api.called
    /\ api.outcome.kind = "rejected"
    /\ api.outcome.status = 400
    /\ holdingsForm.callback = [name |-> "onError", arg |-> "detail"]
    /\ holdingsForm.submits = 2
    /\ holdingsForm.loading
    /\ holdingsForm.inFlight # <<>>

----------------------------------------------------------------------------
(* Lifetime exhaustion *)

\* lifetime usage of run r as reported for year k
UsedIn(r, k) == records[r][k].nisa_usage

\* the years k < j of run r that have been projected
YearPairs(r) == {p \in (1..Len(calls[r])) \X (1..Len(calls[r])) : p[1] < p[2]}

\* C25: once the lifetime total usage reported for a year of a run has
\* reached the lifetime total cap, every later year of the run credits 0 to
\* TypeA and to TypeB and returns the whole proposed amount as overflow; once
\* TypeB's lifetime usage has reached TypeB's lifetime cap, every later year
\* credits 0 to TypeB
C25_LifetimeExhaustion ==
    \A r \in Runs : \A p \in YearPairs(r) :
        LET later == calls[r][p[2]]
        IN /\ UsedIn(r, p[1]).lifetime_total.used >= LIFETIME_LIMIT.total =>
                /\ later.out.typeA = 0
                /\ later.out.typeB = 0
                /\ later.out.overflow = later.proposed.tsumitate + later.proposed.growth
           /\ UsedIn(r, p[1]).lifetime_growth.used >= LIFETIME_LIMIT.growth =>
                later.out.typeB = 0

\* the total cap is reached by the credits of year 2, and year 3 returns
\* what is proposed for both buckets as overflow
C25_Witness ==
    /\ Len(calls[1]) >= 3
    /\ UsedIn(1, 1).lifetime_total.used < LIFETIME_LIMIT.total
    /\ calls[1][2].out.typeA > 0
    /\ UsedIn(1, 2).lifetime_total.used = LIFETIME_LIMIT.total
    /\ calls[1][3].proposed.tsumitate > 0
    /\ calls[1][3].proposed.growth > 0
    /\ calls[1][3].out.overflow
          = calls[1][3].proposed.tsumitate + calls[1][3].proposed.growth

----------------------------------------------------------------------------
(* Authentication *)

\* C26  Server session is authoritative: when the initial load of
\* AuthProvider finishes (isLoading becomes false), the user is the result
\* of the auth/me check: the user of the session when the check succeeded,
\* no user when it failed.
C26_ServerSessionAuthoritative ==
    [][(auth.isLoading /\ ~auth'.isLoading)
        => auth'.user = IF auth.me = "resolved" THEN ServerUser ELSE 0]_vars

\* C27  Route guard: a page wrapped by withAuth shows its component only
\* when loading is over and there is a user; whenever loading is over and
\* there is no user it shows the placeholder, and a redirect to /login whose
\* returnUrl reads back as the current path has been pushed.
C27_RouteGuard ==
    /\ (~IsLoginPage(route.path) /\ route.view = "component")
        => (~auth.isLoading /\ auth.user # 0)
    /\ (~IsLoginPage(route.path) /\ ~auth.isLoading /\ auth.user = 0)
        => /\ route.view = "placeholder"
           /\ LoginUrl(route.path) \in route.pushed
           /\ \E url \in route.pushed :
                /\ IsLoginPage(url)
                /\ Router_query_returnUrl(url) = route.path

\* a page with a query in its path, loading over without a user: the
\* placeholder and the pending redirect
C27_Witness ==
    /\ ~IsLoginPage(route.path)
    /\ Len(route.path) > 2
    /\ ~auth.isLoading
    /\ auth.user = 0
    /\ route.view = "placeholder"
    /\ LoginUrl(route.path) \in route.pushed

\* C28  Post-logout state: from the completion of logout() until a login()
\* succeeds, there is no user and localStorage holds no 'user' entry.
C28_PostLogout ==
    auth.loggedOut => (auth.user = 0 /\ auth.stored = 0)

----------------------------------------------------------------------------
(* Plans page *)

\* C29  Plans page reload after change: the reload issued after a
\* successful delete or save asks for a page that exists for the remaining
\* plans, and leaves currentPage <= max(1, totalPages), no error, and the
\* remaining plans of that page in the list.
C29_ReloadAfterChange ==
    plansPage.reload.after \in {"delete", "save"}
        => /\ PageExists(plansPage.reload.page, planRows)
           /\ PageExists(plansPage.currentPage, planRows)
           /\ plansPage.currentPage <= (IF plansPage.totalPages > 1
                                        THEN plansPage.totalPages ELSE 1)
           /\ plansPage.error = "none"
           /\ plansPage.plans = resultsOn(plansPage.currentPage, planRows)

----------------------------------------------------------------------------
(* Plan form, edited field by field *)

\* C30  Bonus-month list iff PeriodicBonus: every plan that PlansForm
\* passes to onSubmit has a non-empty bonus-month list if and only if its
\* frequency is BONUS_MONTH, whatever the edits before the submit.
C30_BonusMonthsIffBonus ==
    submitted.PlansForm # NoSubmission
        => (submitted.PlansForm.bonus_months # <<>>
              <=> submitted.PlansForm.frequency = "BONUS_MONTH")


====
